---- MODULE Spec2Model ----
(***************************************************************************)
(* GermanMarket.AI: the rule-driven scoring engines.                       *)
(*                                                                         *)
(*   RiskSpec  app/services/shopify/__init__.py   RiskDetector             *)
(*   EvalSpec  app/services/influencer/evaluator.py InfluencerEvaluator    *)
(*   BatchSpec app/services/shopify/__init__.py   batch_detect, the filters*)
(*   AbsaSpec  app/services/nlp/absa.py           ABSAExtractor.extract    *)
(*   ReviewSpec app/services/review_analyzer.py   ReviewAnalyzer           *)
(*                                                                         *)
(* Texts are sequences of fragments (one or more words each); the text is  *)
(* the fragments joined by blanks.  Python's `kw in text` is a substring   *)
(* test: a keyword occurs in a text iff it is a substring of one of the    *)
(* fragments (no keyword of the tables spans two fragments of the          *)
(* vocabularies used here).  Scores are kept in tenths of a point and      *)
(* weights in hundredths, so the arithmetic is exact.                      *)
(***************************************************************************)
EXTENDS Integers, Sequences, FiniteSets, TLC

VARIABLES
    RISK_KEYWORDS,  \* the module-level table: category -> its "keywords" list
    detectors,      \* the RiskDetector instances constructed so far
    review,         \* the review under analysis: [content, rating]
    lastDetect,     \* the last detect call: who called, what it read and returned
    now,            \* datetime.now(), in ticks
    profile,        \* the InfluencerProfile under evaluation
    evaluator,      \* the InfluencerEvaluator constructed, if any
    evaluations,    \* the first and the latest EvaluationResult returned
    reviews,        \* the caller's list of ReviewSchema records
    batchCall,      \* the last batch_detect call: its list before, what it returned
    riskReport,     \* the last generate_risk_report call
    absaCall,       \* the last ABSAExtractor.extract call
    analyzer,       \* the ReviewAnalyzer constructed, if any
    lastCall,       \* the last analyze_single or analyze_batch call
    candidates,     \* the profiles handed to evaluate_batch
    batchResults,   \* the last evaluate_batch call: when each item ran, what came back
    ranking,        \* the last rank_influencers call: its argument and what it returned
    generator,      \* the OutreachGenerator constructed, if any: tone, include_gdpr
    context,        \* the OutreachContext of the outreach calls
    toneSet,        \* the tone last given to the constructor or to set_tone
    outreach,       \* the last generate or preview_both_tones call
    mail,           \* the arguments of privacy_check: email_body, context, strict_mode
    privacy,        \* the PrivacyCheckResult of the last privacy_check call
    apologyContext, \* the ApologyContext and the ApologyGenerator's own fields
    apology,        \* the last ApologyGenerator.generate call
    csv,            \* the rows of the CSV given to import_from_csv
    imported        \* the last import_from_csv call

riskVars == <<RISK_KEYWORDS, detectors, review, lastDetect>>
evalVars == <<now, profile, evaluator, evaluations>>
batchVars == <<reviews, batchCall, riskReport>>
nlpVars == <<absaCall, analyzer, lastCall>>
rankVars == <<candidates, batchResults, ranking>>
contentVars == <<generator, context, toneSet, outreach, mail, privacy, apologyContext, apology>>
importVars == <<csv, imported>>
vars == <<RISK_KEYWORDS, detectors, review, lastDetect, now, profile, evaluator, evaluations, reviews, batchCall, riskReport, absaCall, analyzer, lastCall, candidates, batchResults, ranking, generator, context, toneSet, outreach, mail, privacy, apologyContext, apology, csv, imported>>

(***************************************************************************)
(* Bounds of the model.                                                    *)
(***************************************************************************)
MaxTextLen == 2     \* fragments in a review text
MaxDetectors == 2   \* RiskDetector instances constructed in one run
MaxTicks == 2       \* ticks of wall-clock time that pass in one run
MaxReviews == 3     \* records in a list given to batch_detect
MaxAbsaLen == 5     \* tokens in a text given to ABSAExtractor.extract
MaxBatch == 5       \* texts in a batch given to ReviewAnalyzer.analyze_batch

(***************************************************************************)
(* Sequences and strings.                                                  *)
(***************************************************************************)
RECURSIVE SeqsUpTo(_, _)
SeqsUpTo(S, n) ==
    IF n = 0 THEN {<<>>}
    ELSE LET shorter == SeqsUpTo(S, n - 1)
         IN  shorter \cup {Append(s, x) : s \in {t \in shorter : Len(t) = n - 1}, x \in S}

Reverse(s) == [i \in 1..Len(s) |-> s[Len(s) + 1 - i]]

\* An optional value (Python's None or a value): <<>> or <<v>>.
None == <<>>
Some(v) == <<v>>

(***************************************************************************)
(* RiskLevel and the RISK_KEYWORDS table.                                  *)
(***************************************************************************)
CRITICAL == "critical"
HIGH == "high"
MEDIUM == "medium"
LOW == "low"
RiskLevel == {CRITICAL, HIGH, MEDIUM, LOW}

\* The categories in the table's (insertion) order, the order detect scans them in.
RiskCategories == <<"legal", "safety", "refund", "complaint", "quality">>

RiskCategorySet == {RiskCategories[i] : i \in 1..Len(RiskCategories)}

\* RISK_KEYWORDS[category]["keywords"] as the module is loaded.
InitialRiskKeywords ==
    [category \in RiskCategorySet |->
        CASE category = "legal" ->
                <<"anwalt", "rechtsanwalt", "klage", "gericht", "anzeige",
                  "verbraucherschutz", "abmahnung", "schadensersatz", "haftung",
                  "betrug", "täuschung", "irreführend", "falsch", "lüge">>
          [] category = "safety" ->
                <<"gefährlich", "verletzung", "verletzt", "brand", "feuer",
                  "explosion", "giftig", "allergie", "allergisch", "krankenhaus",
                  "arzt", "notfall", "gesundheit", "schaden", "kaputt">>
          [] category = "refund" ->
                <<"rückerstattung", "geld zurück", "erstattung", "rücksendung",
                  "widerruf", "stornierung", "paypal", "kreditkarte", "chargeback">>
          [] category = "complaint" ->
                <<"beschwerde", "reklamation", "kundenservice", "keine antwort",
                  "ignoriert", "unverschämt", "frechheit", "niemals wieder">>
          [] category = "quality" ->
                <<"defekt", "kaputt", "funktioniert nicht", "minderwertig",
                  "billig", "schrott", "müll", "wegwerfen", "enttäuscht">>]

\* RISK_KEYWORDS[category]["risk_level"].value
CategoryRiskLevel(category) ==
    CASE category = "legal" -> CRITICAL
      [] category = "safety" -> CRITICAL
      [] category = "refund" -> HIGH
      [] category = "complaint" -> HIGH
      [] category = "quality" -> MEDIUM

\* RISK_KEYWORDS[category]["alert_message"] (the message text is not modelled,
\* only which category's message it is).
AlertMessage(category) == "alert_message:" \o category

(***************************************************************************)
(* Review texts.                                                           *)
(***************************************************************************)
\* The fragments review texts are built from (profile texts: ProfileTexts).
ReviewFragments == {"Anwalt", "rechtsanwalt", "kaputt", "Geld zurück", "defekt", "okay"}

\* str.lower() of a fragment.
Lower(fragment) ==
    CASE fragment = "Anwalt" -> "anwalt"
      [] fragment = "Geld zurück" -> "geld zurück"
      [] fragment = "Der" -> "der"
      [] fragment = "Gadget" -> "gadget"
      [] fragment = "Ich" -> "ich"
      [] fragment = "Look" -> "look"
      [] fragment = "Mein" -> "mein"
      [] fragment = "Mode" -> "mode"
      [] fragment = "Outfit" -> "outfit"
      [] fragment = "Preis" -> "preis"
      [] fragment = "Qualität" -> "qualität"
      [] fragment = "Smartphone" -> "smartphone"
      [] fragment = "Stadt" -> "stadt"
      [] fragment = "Versand" -> "versand"
      [] fragment = "Guten Tag Frau Schmidt,"
            -> "guten tag frau schmidt,"
      [] fragment = "Hi Anna,"
            -> "hi anna,"
      [] fragment = "wir möchten Ihnen eine Kooperation anbieten."
            -> "wir möchten ihnen eine kooperation anbieten."
      [] fragment = "Li Wei"
            -> "li wei"
      [] fragment = "EcoStyle GmbH"
            -> "ecostyle gmbh"
      [] fragment = "Ihr EcoStyle Team"
            -> "ihr ecostyle team"
      [] fragment = "12345 Berlin"
            -> "12345 berlin"
      [] fragment = "Falls Sie keine weiteren Nachrichten möchten, teilen Sie uns dies bitte mit."
            -> "falls sie keine weiteren nachrichten möchten, teilen sie uns dies bitte mit."
      [] fragment = "Datenschutz: Ihre Daten werden nicht weitergegeben."
            -> "datenschutz: ihre daten werden nicht weitergegeben."
      [] fragment = "EcoStyle"
            -> "ecostyle"
      [] OTHER -> fragment

\* The lower-cased strings one of which properly contains the other:
\* <<a, b>> when a is a substring of b and a # b.
ProperSubstrings ==
    {<<"anwalt", "rechtsanwalt">>, <<"schaden", "schadensersatz">>,
     <<"erstattung", "rückerstattung">>,
     <<"app", "#app">>, <<"bio", "#bio">>, <<"eco", "#eco">>,
     <<"fashion", "#fashion">>, <<"style", "#style">>, <<"test", "#test">>,
     <<"trend", "#trend">>,
     <<"nachhaltig", "nachhaltige">>, <<"nachhaltig", "nachhaltigkeit">>,
     <<"eco", "decor">>, <<"food", "foodie">>, <<"tech", "technik">>,
     <<"qualität", "deutsche qualität">>, <<"wert", "hochwertig">>,
     <<"ag",
       "guten tag frau schmidt,">>,
     <<"kooperation",
       "wir möchten ihnen eine kooperation anbieten.">>,
     <<"gmbh",
       "ecostyle gmbh">>,
     <<"ecostyle",
       "ecostyle gmbh">>,
     <<"ecostyle",
       "ihr ecostyle team">>,
     <<"ecostyle",
       "kontakt@ecostyle.de">>,
     <<"keine weiteren nachrichten",
       "falls sie keine weiteren nachrichten möchten, teilen sie uns dies bitte mit.">>,
     <<"datenschutz",
       "datenschutz: ihre daten werden nicht weitergegeben.">>,
     <<"daten",
       "datenschutz: ihre daten werden nicht weitergegeben.">>,
     <<"nicht weitergegeben",
       "datenschutz: ihre daten werden nicht weitergegeben.">>}

\* text.lower()
LowerText(text) == [i \in 1..Len(text) |-> Lower(text[i])]

\* The strings a lower-cased fragment properly contains.
ContainedIn(fragment) == {pair[1] : pair \in {q \in ProperSubstrings : q[2] = fragment}}

\* The strings that occur in a lower-cased text: its fragments and what they
\* properly contain.
Substrings(text_lower) ==
    UNION {{text_lower[i]} \cup ContainedIn(text_lower[i]) : i \in 1..Len(text_lower)}

\* kw in text_lower
KeywordIn(kw, text_lower) == kw \in Substrings(text_lower)

ReviewTexts == SeqsUpTo(ReviewFragments, MaxTextLen)

\* rating: Optional[int]
Ratings == {None} \cup {Some(r) : r \in 1..5}

(***************************************************************************)
(* RiskDetector.detect                                                     *)
(***************************************************************************)
\* f"{category}:{len(found_keywords)}"
CategoryFlag(category, found_keywords) ==
    category \o ":" \o ToString(Len(found_keywords))

\* The update of max_risk for one matched category (detect, lines 202-208).
UpdateMaxRisk_HighOverwrites(level, max_risk) ==
    IF level = CRITICAL THEN CRITICAL
    ELSE IF level = HIGH THEN HIGH
    ELSE IF level = MEDIUM /\ max_risk = LOW THEN MEDIUM
    ELSE max_risk

UpdateMaxRisk(level, max_risk) ==
    IF level = CRITICAL THEN CRITICAL
    ELSE IF level = HIGH /\ max_risk # CRITICAL THEN HIGH
    ELSE IF level = MEDIUM /\ max_risk = LOW THEN MEDIUM
    ELSE max_risk

\* [kw for kw in config["keywords"] if kw in text_lower]
\* (occurring: the strings that occur in text_lower)
FoundAmong(keywords, occurring) == SelectSeq(keywords, LAMBDA kw : kw \in occurring)

FoundKeywords(keywords, text_lower) == FoundAmong(keywords, Substrings(text_lower))

\* One iteration of the scan loop over a category.
ScanCategory(category, keywords, text_lower, acc) ==
    LET found_keywords == FoundKeywords(keywords, text_lower)
    IN  IF found_keywords # <<>>
        THEN [matched |-> (category :> found_keywords) @@ acc.matched,
              flags |-> Append(acc.flags, CategoryFlag(category, found_keywords)),
              alerts |-> Append(acc.alerts, AlertMessage(category)),
              max_risk |-> UpdateMaxRisk(CategoryRiskLevel(category), acc.max_risk)]
        ELSE acc

\* The scan loop: for category, config in self.risk_keywords.items()
RECURSIVE ScanCategories(_, _, _, _)
ScanCategories(order, risk_keywords, text_lower, acc) ==
    IF order = <<>> THEN acc
    ELSE ScanCategories(Tail(order), risk_keywords, text_lower,
                        ScanCategory(Head(order), risk_keywords[Head(order)],
                                     text_lower, acc))

\* The state of the scan before the loop: flags, alerts, matched, max_risk.
ScanStart == [matched |-> <<>>, flags |-> <<>>, alerts |-> <<>>, max_risk |-> LOW]

\* The rating escalation of max_risk (detect, lines 211-215).
EscalateByRating_AnyLevel(max_risk, rating) ==
    IF rating # None /\ rating[1] <= 2
    THEN IF max_risk = LOW THEN MEDIUM
         ELSE IF max_risk = MEDIUM THEN HIGH
         ELSE IF max_risk = HIGH THEN CRITICAL
         ELSE max_risk
    ELSE max_risk

EscalateByRating(max_risk, rating) ==
    IF rating # None /\ rating[1] <= 2
    THEN IF max_risk = LOW THEN MEDIUM
         ELSE IF max_risk = MEDIUM THEN HIGH
         ELSE max_risk
    ELSE max_risk

\* The flags after the rating escalation (detect, lines 211 and 216).
RatingFlags_OnlyWhenEscalated(flags, max_risk, rating) ==
    IF rating # None /\ rating[1] <= 2 /\ max_risk \in {LOW, MEDIUM}
    THEN Append(flags, "low_rating")
    ELSE flags

RatingFlags(flags, max_risk, rating) ==
    IF rating # None /\ rating[1] <= 2 THEN Append(flags, "low_rating") ELSE flags

\* detect(text, rating) of a detector whose keyword lists are risk_keywords,
\* scanning the categories in the given order.
detect_in_order(order, risk_keywords, text, rating) ==
    LET scan == ScanCategories(order, risk_keywords, LowerText(text), ScanStart)
    IN  [risk_level |-> EscalateByRating(scan.max_risk, rating),
         flags |-> RatingFlags(scan.flags, scan.max_risk, rating),
         alerts |-> scan.alerts,
         matched_keywords |-> scan.matched]

detect(risk_keywords, text, rating) ==
    detect_in_order(RiskCategories, risk_keywords, text, rating)

(***************************************************************************)
(* RiskDetector.__init__                                                   *)
(***************************************************************************)
\* The custom_keywords arguments: None, or a dict category -> keyword list.
CustomKeywordChoices ==
    {None,
     Some([category \in {"quality", "versand"} |->
              IF category = "quality" THEN <<"okay">> ELSE <<"express">>])}

\* self.risk_keywords = RISK_KEYWORDS.copy(): a new dict whose values are the
\* table's own config dicts (a shallow copy): each entry refers to the config,
\* and so to the keyword list, of the module-level table.
ShallowCopy == [category \in RiskCategorySet |-> category]

\* The keyword lists after the loop of __init__ has extended them in place.
ExtendKeywords(table, custom_keywords) ==
    IF custom_keywords = None THEN table
    ELSE [category \in DOMAIN table |->
             IF category \in DOMAIN custom_keywords[1]
             THEN table[category] \o custom_keywords[1][category]
             ELSE table[category]]

\* The keyword lists a detector reads: self.risk_keywords[category]["keywords"].
DetectorKeywords(detector, table) ==
    [category \in DOMAIN detector.risk_keywords |-> table[detector.risk_keywords[category]]]

NoDetect ==
    [who |-> -1, keywords |-> <<>>, text |-> <<>>, rating |-> None,
     result |-> [risk_level |-> LOW, flags |-> <<>>, alerts |-> <<>>,
                 matched_keywords |-> <<>>]]

RiskIdle ==
    /\ RISK_KEYWORDS = InitialRiskKeywords
    /\ detectors = <<>>
    /\ review = [content |-> <<>>, rating |-> None]
    /\ lastDetect = NoDetect

EvalIdle ==
    /\ now = 0
    /\ profile = <<>>
    /\ evaluator = None
    /\ evaluations = <<>>

BatchIdle ==
    /\ reviews = <<>>
    /\ batchCall = None
    /\ riskReport = None

NlpIdle ==
    /\ absaCall = [text |-> <<>>, pipeline |-> <<>>, result |-> None]
    /\ analyzer = None
    /\ lastCall = None

RankIdle ==
    /\ candidates = <<>>
    /\ batchResults = None
    /\ ranking = None

ContentIdle ==
    /\ generator = None
    /\ context = <<>>
    /\ toneSet = None
    /\ outreach = None
    /\ mail = <<>>
    /\ privacy = None
    /\ apologyContext = <<>>
    /\ apology = None

ImportIdle ==
    /\ csv = <<>>
    /\ imported = None

RiskInit ==
    /\ RISK_KEYWORDS = InitialRiskKeywords
    /\ detectors = <<>>
    /\ review \in [content : ReviewTexts, rating : Ratings]
    /\ lastDetect = NoDetect
    /\ EvalIdle
    /\ BatchIdle
    /\ NlpIdle
    /\ RankIdle
    /\ ContentIdle
    /\ ImportIdle

\* RiskDetector(custom_keywords)
RiskDetector_init(custom_keywords) ==
    /\ Len(detectors) < MaxDetectors
    /\ detectors' = Append(detectors,
                           [risk_keywords |-> ShallowCopy, custom |-> custom_keywords])
    /\ RISK_KEYWORDS' = ExtendKeywords(RISK_KEYWORDS, custom_keywords)
    /\ UNCHANGED <<review, lastDetect, evalVars, batchVars, nlpVars, rankVars, contentVars, importVars>>

\* detectors[d].detect(review.content, review.rating)
RiskDetector_detect(d) ==
    /\ d \in 1..Len(detectors)
    /\ LET keywords == DetectorKeywords(detectors[d], RISK_KEYWORDS)
       IN  lastDetect' = [who |-> d, keywords |-> keywords,
                          text |-> review.content, rating |-> review.rating,
                          result |-> detect(keywords, review.content, review.rating)]
    /\ UNCHANGED <<RISK_KEYWORDS, detectors, review, evalVars, batchVars, nlpVars, rankVars, contentVars, importVars>>

\* detect_review_risk(review.content, review.rating): a fresh RiskDetector()
\* with no custom keywords, used once.
detect_review_risk ==
    /\ LET detector == [risk_keywords |-> ShallowCopy, custom |-> None]
           keywords == DetectorKeywords(detector, ExtendKeywords(RISK_KEYWORDS, None))
       IN  lastDetect' = [who |-> 0, keywords |-> keywords,
                          text |-> review.content, rating |-> review.rating,
                          result |-> detect(keywords, review.content, review.rating)]
    /\ UNCHANGED <<RISK_KEYWORDS, detectors, review, evalVars, batchVars, nlpVars, rankVars, contentVars, importVars>>

RiskNext ==
    \/ \E custom_keywords \in CustomKeywordChoices : RiskDetector_init(custom_keywords)
    \/ \E d \in 1..MaxDetectors : RiskDetector_detect(d)
    \/ detect_review_risk

RiskSpec == RiskInit /\ [][RiskNext]_vars

(***************************************************************************)
(* Claims about RiskDetector (RiskSpec).                                   *)
(***************************************************************************)
\* CRITICAL > HIGH > MEDIUM > LOW
LevelRank(level) ==
    CASE level = CRITICAL -> 3 [] level = HIGH -> 2 [] level = MEDIUM -> 1 [] level = LOW -> 0

\* The positions of a keyword list whose keyword occurs in the text.
HitPositions(keywords, text) ==
    {i \in 1..Len(keywords) : KeywordIn(keywords[i], LowerText(text))}

\* The categories with at least one keyword hit in the last detect call.
MatchedCategories ==
    {category \in RiskCategorySet :
        HitPositions(lastDetect.keywords[category], lastDetect.text) # {}}

\* The highest level among the matched categories, LOW when none matched.
KeywordLevel ==
    IF \E c \in MatchedCategories : CategoryRiskLevel(c) = CRITICAL THEN CRITICAL
    ELSE IF \E c \in MatchedCategories : CategoryRiskLevel(c) = HIGH THEN HIGH
    ELSE IF \E c \in MatchedCategories : CategoryRiskLevel(c) = MEDIUM THEN MEDIUM
    ELSE LOW

Rotate(s, k) == [i \in 1..Len(s) |-> s[((i + k - 1) % Len(s)) + 1]]

\* Orders the categories could be scanned in: the rotations of the table's
\* order and of its reverse.
ScanOrders ==
    {Rotate(RiskCategories, k) : k \in 0..(Len(RiskCategories) - 1)}
        \cup {Rotate(Reverse(RiskCategories), k) : k \in 0..(Len(RiskCategories) - 1)}

LowRating(rating) == rating # None /\ rating[1] <= 2

\* C1: detect never returns a level below the level of a category whose
\* keywords matched the text; with no rating the level is exactly the highest
\* level among the matched categories (LOW when none matched), whatever order
\* the categories are scanned in.
C1_LevelIsMaxOfMatched ==
    lastDetect.who >= 0 =>
        /\ \A c \in MatchedCategories :
              LevelRank(lastDetect.result.risk_level) >= LevelRank(CategoryRiskLevel(c))
        /\ lastDetect.rating = None => lastDetect.result.risk_level = KeywordLevel
        /\ \A order \in ScanOrders :
              detect_in_order(order, lastDetect.keywords, lastDetect.text,
                       lastDetect.rating).risk_level = lastDetect.result.risk_level

\* A detect call without rating on a text that matches a CRITICAL category
\* (legal) and, scanned after it, a HIGH one (refund).
C1_Witness ==
    /\ lastDetect.who >= 0
    /\ lastDetect.rating = None
    /\ {"legal", "refund"} \subseteq MatchedCategories
    /\ lastDetect.result.risk_level = CRITICAL

\* C2: a rating <= 2 raises the keyword-derived level by exactly one step from
\* LOW or MEDIUM and leaves HIGH and CRITICAL alone; a rating >= 3 or no
\* rating returns the keyword-derived level.
C2_RatingEscalation ==
    lastDetect.who >= 0 =>
        lastDetect.result.risk_level =
            IF LowRating(lastDetect.rating)
            THEN CASE KeywordLevel = LOW -> MEDIUM
                   [] KeywordLevel = MEDIUM -> HIGH
                   [] KeywordLevel = HIGH -> HIGH
                   [] KeywordLevel = CRITICAL -> CRITICAL
            ELSE KeywordLevel

\* A detect call with rating 2 on a text whose keywords give HIGH, which stays HIGH.
C2_Witness ==
    /\ lastDetect.who >= 0
    /\ lastDetect.rating = Some(2)
    /\ KeywordLevel = HIGH
    /\ lastDetect.result.risk_level = HIGH

\* The elements of the flags list of the last detect call.
FlagSet == {lastDetect.result.flags[i] : i \in 1..Len(lastDetect.result.flags)}

\* C3: flags holds "low_rating" iff a rating <= 2 was supplied, whether or not
\* the level was escalated, and exactly one flag "<category>:<hit-count>" for
\* each category with a keyword hit, the hit-count being the number of entries
\* of the category's keyword list found in the text; it holds nothing else.
C3_Flags ==
    lastDetect.who >= 0 =>
        /\ ("low_rating" \in FlagSet) <=> LowRating(lastDetect.rating)
        /\ FlagSet \ {"low_rating"} =
              {c \o ":" \o ToString(Cardinality(
                    HitPositions(lastDetect.keywords[c], lastDetect.text))) :
               c \in MatchedCategories}
        /\ Len(lastDetect.result.flags) = Cardinality(FlagSet)

\* A detect call with rating 1 on a text matching a CRITICAL category with two
\* keyword hits: no escalation, and yet the low_rating flag.
C3_Witness ==
    /\ lastDetect.who >= 0
    /\ lastDetect.rating = Some(1)
    /\ KeywordLevel = CRITICAL
    /\ lastDetect.result.risk_level = CRITICAL
    /\ "legal:2" \in FlagSet
    /\ "low_rating" \in FlagSet

\* The custom keywords the caller of the last detect call was constructed with.
OwnCustomKeywords ==
    IF lastDetect.who >= 1 THEN detectors[lastDetect.who].custom ELSE None

\* C10: custom keywords extend only the detector constructed with them: the
\* module-level table is never mutated, and every detect call returns what the
\* table as loaded, extended by the caller's own custom keywords, gives.
C10_CustomKeywordsAreLocal ==
    /\ RISK_KEYWORDS = InitialRiskKeywords
    /\ lastDetect.who >= 0 =>
          lastDetect.result =
              detect(ExtendKeywords(InitialRiskKeywords, OwnCustomKeywords),
                     lastDetect.text, lastDetect.rating)

(***************************************************************************)
(* InfluencerEvaluator: profiles, lexicons and time.                       *)
(*                                                                         *)
(* Sub-scores are in tenths of a point, weights in hundredths, the total   *)
(* in thousandths of a point.  The Chinese status and message texts are    *)
(* rendered by English tags.  Rounded copies of ratios kept in the detail  *)
(* maps for display only (engagement_rate, follower_following_ratio,       *)
(* comment_like_ratio, german_value_score) are left out.                   *)
(***************************************************************************)
TicksPerDay == 2    \* resolution of the clock: ticks in one day

Points(n) == n * 10
Whole(points) == points * 1000

Platform == {"instagram", "tiktok", "youtube"}

GERMAN_VALUE_KEYWORDS ==
    [category \in {"sustainability", "reliability", "value", "honesty"} |->
        CASE category = "sustainability" ->
                [de |-> <<"nachhaltig", "nachhaltigkeit", "umweltfreundlich", "öko", "bio",
                          "klimaneutral", "recycling", "plastikfrei", "fair trade", "grün">>,
                 en |-> <<"sustainable", "eco", "green", "organic", "climate">>,
                 weight |-> 15]
          [] category = "reliability" ->
                [de |-> <<"qualität", "zuverlässig", "hochwertig", "langlebig", "robust",
                          "made in germany", "deutsche qualität", "präzision", "sorgfalt">>,
                 en |-> <<"quality", "reliable", "durable", "premium">>,
                 weight |-> 13]
          [] category = "value" ->
                [de |-> <<"preis-leistung", "günstig", "sparen", "angebot", "rabatt", "deal">>,
                 en |-> <<"value", "affordable", "deal", "discount">>,
                 weight |-> 10]
          [] category = "honesty" ->
                [de |-> <<"ehrlich", "test", "erfahrung", "meinung", "review", "bewertung",
                          "unboxing", "vergleich">>,
                 en |-> <<"honest", "review", "test", "opinion", "comparison">>,
                 weight |-> 12]]

\* The value categories in the table's order.
ValueCategories == <<"sustainability", "reliability", "value", "honesty">>

NICHE_KEYWORDS ==
    [niche \in {"fashion", "tech", "beauty", "fitness", "food", "home"} |->
        CASE niche = "fashion" ->
                [de |-> <<"mode", "outfit", "style", "kleidung", "fashion", "look", "trend">>,
                 en |-> <<"fashion", "style", "outfit", "ootd", "clothing">>]
          [] niche = "tech" ->
                [de |-> <<"technik", "gadget", "smartphone", "computer", "digital", "app">>,
                 en |-> <<"tech", "gadget", "smartphone", "digital", "app", "software">>]
          [] niche = "beauty" ->
                [de |-> <<"beauty", "kosmetik", "makeup", "hautpflege", "skincare", "schönheit">>,
                 en |-> <<"beauty", "makeup", "skincare", "cosmetics">>]
          [] niche = "fitness" ->
                [de |-> <<"fitness", "sport", "training", "gesundheit", "workout", "gym">>,
                 en |-> <<"fitness", "workout", "gym", "health", "training">>]
          [] niche = "food" ->
                [de |-> <<"essen", "kochen", "rezept", "food", "küche", "lecker", "vegan">>,
                 en |-> <<"food", "recipe", "cooking", "foodie", "vegan">>]
          [] niche = "home" ->
                [de |-> <<"wohnen", "einrichtung", "deko", "interior", "zuhause", "möbel">>,
                 en |-> <<"home", "interior", "decor", "furniture", "living">>]]

\* german_indicators of _evaluate_relevance
GermanIndicators == <<"ich", "und", "der", "die", "das", "ist", "für", "mit">>

\* dict.get(key, default)
Get(dict, key, default) == IF key \in DOMAIN dict THEN dict[key] ELSE default

\* " ".join(list of lists of fragments)
RECURSIVE Join(_)
Join(lists) == IF lists = <<>> THEN <<>> ELSE Head(lists) \o Join(Tail(lists))

\* The blank-separated words of a lower-cased fragment.
WordsOf(fragment) == IF fragment = "fair trade" THEN {"fair", "trade"} ELSE {fragment}

\* f" {word} " in f" {all_text} "
WordIn(word, all_text) == \E i \in 1..Len(all_text) : word \in WordsOf(all_text[i])

\* timedelta.days of the difference of two instants given in ticks
DaysBetween(later, earlier) == (later - earlier) \div TicksPerDay

\* max(list) of a non-empty list of instants
MaxOf(list) == CHOOSE m \in {list[i] : i \in 1..Len(list)} :
                  \A i \in 1..Len(list) : list[i] <= m

\* n posts, one a day, the newest latest_age ticks before the start of the run.
PostDates(n, latest_age) == [i \in 1..n |-> 0 - (latest_age + (i - 1) * TicksPerDay)]

\* The bio, captions and hashtags of the profiles.
TextStrong ==
    [bio |-> <<"Ich", "liebe", "nachhaltige", "Mode", "und", "Qualität">>,
     recent_captions |-> << <<"Mein", "Outfit", "ist", "fair trade">>,
                            <<"Der", "Look", "für", "die", "Stadt">> >>,
     hashtags |-> <<"#fashion", "#style", "#eco", "#bio", "#test">>]

TextEnglish == [bio |-> <<"fashion", "blogger">>, recent_captions |-> <<>>, hashtags |-> <<>>]

TextTech ==
    [bio |-> <<"Gadget", "review">>,
     recent_captions |-> << <<"das", "ist", "mein", "Smartphone">> >>,
     hashtags |-> <<"#app">>]

TextEmpty == [bio |-> <<>>, recent_captions |-> <<>>, hashtags |-> <<>>]

TextCasual == [bio |-> <<"Mein", "Outfit">>, recent_captions |-> <<>>, hashtags |-> <<"#trend">>]

ProfileTexts == {TextStrong, TextEnglish, TextTech, TextEmpty, TextCasual}

MakeProfile(platform, followers, following, posts_count, avg_likes, avg_comments, text, dates) ==
    [platform |-> platform, username |-> "influencer",
     followers |-> followers, following |-> following, posts_count |-> posts_count,
     avg_likes |-> avg_likes, avg_comments |-> avg_comments,
     bio |-> text.bio, recent_captions |-> text.recent_captions,
     hashtags |-> text.hashtags, recent_post_dates |-> dates]

\* Lists of post dates: none, or 1, 2, 4, 8 and 16 daily posts, the newest
\* 0, 3, 7, 14, 30 and 45 days old at the start of the run.
PostDateLists ==
    {<<>>} \cup {PostDates(n, age * TicksPerDay) :
                    n \in {1, 2, 4, 8, 16}, age \in {0, 3, 7, 14, 30, 45}}

\* The profiles evaluated.  Around a strong profile (instagram, 50,000
\* followers, 500 following, 2,500 likes and 150 comments a post, 200 posts,
\* 10 posts in the last 10 days) are varied, with the platform: the post
\* dates; the post count; the audience figures; the text.  And a weak
\* profile: 100,000 followers, 9,500 following, 150 likes, one post 45 days ago.
Profiles ==
    {MakeProfile(p, 50000, 500, 200, 2500, 150, TextStrong, d) :
        p \in Platform, d \in PostDateLists}
    \cup {MakeProfile(p, 50000, 500, c, 2500, 150, TextStrong, d) :
            p \in Platform, c \in {0, 10, 20, 50, 100},
            d \in {<<>>, PostDates(10, 0), PostDates(1, 0)}}
    \cup {MakeProfile(p, f, 500, 200, l, c, TextStrong, PostDates(10, 0)) :
            p \in Platform, f \in {0, 50000, 150000, 2000000},
            l \in {0, 150, 2500, 9000}, c \in {0, 150, 400}}
    \cup {MakeProfile("instagram", f, g, 200, 2500, 150, TextStrong, PostDates(10, 0)) :
            f \in {0, 50000, 150000}, g \in {0, 500, 9500, 30000}}
    \cup {MakeProfile(p, 50000, 500, 200, 2500, 150, t, PostDates(10, 0)) :
            p \in Platform, t \in ProfileTexts}
    \cup {MakeProfile("instagram", 100000, 9500, 0, 150, 0, t,
                      PostDates(1, 45 * TicksPerDay)) : t \in ProfileTexts}

(***************************************************************************)
(* InfluencerEvaluator._evaluate_activity                                  *)
(***************************************************************************)
\* The ideal posts-per-month band of a platform: <<ideal_min, ideal_max>>.
IdealBand(platform) == IF platform = "youtube" THEN <<4, 8>> ELSE <<8, 15>>

FrequencyScore_AboveHalf(posts_last_30d, platform) ==
    LET ideal_min == IdealBand(platform)[1]
        ideal_max == IdealBand(platform)[2]
    IN  IF ideal_min <= posts_last_30d /\ posts_last_30d <= ideal_max THEN 40
        ELSE IF posts_last_30d > ideal_max THEN 35
        ELSE IF 2 * posts_last_30d > ideal_min THEN 25
        ELSE 10

FrequencyScore(posts_last_30d, platform) ==
    LET ideal_min == IdealBand(platform)[1]
        ideal_max == IdealBand(platform)[2]
    IN  IF ideal_min <= posts_last_30d /\ posts_last_30d <= ideal_max THEN 40
        ELSE IF posts_last_30d > ideal_max THEN 35
        ELSE IF 2 * posts_last_30d >= ideal_min THEN 25
        ELSE 10

RecencyScore(days_since_post) ==
    IF days_since_post <= 3 THEN 30
    ELSE IF days_since_post <= 7 THEN 25
    ELSE IF days_since_post <= 14 THEN 15
    ELSE 5

ContentScore(posts_count) ==
    IF posts_count >= 100 THEN 30
    ELSE IF posts_count >= 50 THEN 25
    ELSE IF posts_count >= 20 THEN 15
    ELSE 10

\* _evaluate_activity(profile) at the instant clock: [score, details]
_evaluate_activity(p, clock) ==
    LET dates == p.recent_post_dates
        posts_last_30d ==
            Cardinality({i \in 1..Len(dates) : DaysBetween(clock, dates[i]) <= 30})
        days_since_post == DaysBetween(clock, MaxOf(dates))
        dated == dates # <<>>
        counted == p.posts_count > 0
        date_score == IF dated
                      THEN FrequencyScore(posts_last_30d, p.platform)
                               + RecencyScore(days_since_post)
                      ELSE 20
        date_details == IF dated
                        THEN ("posts_last_30d" :> posts_last_30d)
                             @@ ("frequency_score" :> FrequencyScore(posts_last_30d, p.platform))
                             @@ ("days_since_last_post" :> days_since_post)
                             @@ ("recency_score" :> RecencyScore(days_since_post))
                        ELSE ("warning" :> "no_post_dates")
        count_details == IF counted
                         THEN ("total_posts" :> p.posts_count)
                              @@ ("content_score" :> ContentScore(p.posts_count))
                         ELSE <<>>
    IN  [score |-> Points(date_score + (IF counted THEN ContentScore(p.posts_count) ELSE 0)),
         details |-> date_details @@ count_details]

(***************************************************************************)
(* InfluencerEvaluator._evaluate_authenticity                              *)
(***************************************************************************)
\* The normal engagement band of a profile, in tenths of a percent:
\* <<normal_min, normal_max>>.
NormalBand(p) ==
    IF p.platform = "tiktok" THEN <<30, 120>>
    ELSE IF p.platform = "youtube" THEN <<20, 80>>
    ELSE IF p.followers > 1000000 THEN <<5, 30>>
    ELSE IF p.followers > 100000 THEN <<10, 50>>
    ELSE <<20, 80>>

\* engagement_rate = (avg_likes + avg_comments) / followers * 100, compared
\* with the band without dividing.
EngagementStatus_FromOneAndHalf(p) ==
    LET rate_num == (p.avg_likes + p.avg_comments) * 1000
        normal_min == NormalBand(p)[1]
        normal_max == NormalBand(p)[2]
    IN  IF normal_min * p.followers <= rate_num /\ rate_num <= normal_max * p.followers
        THEN "normal"
        ELSE IF rate_num < normal_min * p.followers THEN "low"
        ELSE IF 2 * rate_num >= 3 * normal_max * p.followers THEN "abnormally_high"
        ELSE "slightly_high"

EngagementStatus(p) ==
    LET rate_num == (p.avg_likes + p.avg_comments) * 1000   \* rate * 10 * followers
        normal_min == NormalBand(p)[1]
        normal_max == NormalBand(p)[2]
    IN  IF normal_min * p.followers <= rate_num /\ rate_num <= normal_max * p.followers
        THEN "normal"
        ELSE IF rate_num < normal_min * p.followers THEN "low"
        ELSE IF 2 * rate_num > 3 * normal_max * p.followers THEN "abnormally_high"
        ELSE "slightly_high"

EngagementScore(status) ==
    CASE status = "normal" -> 50
      [] status = "low" -> 20
      [] status = "abnormally_high" -> 15
      [] status = "slightly_high" -> 35

\* ff_ratio = followers / following
FFStatus(p) ==
    IF p.followers >= 10 * p.following THEN "excellent"
    ELSE IF p.followers >= 5 * p.following THEN "good"
    ELSE IF p.followers >= 2 * p.following THEN "fair"
    ELSE "suspicious"

FFScore(status) ==
    CASE status = "excellent" -> 30
      [] status = "good" -> 25
      [] status = "fair" -> 15
      [] status = "suspicious" -> 5

\* comment_like_ratio = avg_comments / avg_likes * 100
CLStatus(p) ==
    IF p.avg_likes <= 100 * p.avg_comments /\ 100 * p.avg_comments <= 5 * p.avg_likes
    THEN "normal"
    ELSE IF 100 * p.avg_comments < p.avg_likes THEN "few_comments"
    ELSE "active_comments"

CLScore(status) ==
    CASE status = "normal" -> 20
      [] status = "few_comments" -> 10
      [] status = "active_comments" -> 15

\* _evaluate_authenticity(profile): [score, details]
_evaluate_authenticity(p) ==
    LET engaged == p.followers > 0 /\ p.avg_likes > 0
        followed == p.followers > 0 /\ p.following > 0
        commented == p.avg_likes > 0 /\ p.avg_comments > 0
        eng_details == IF engaged
                       THEN ("engagement_status" :> EngagementStatus(p))
                            @@ ("engagement_score" :> EngagementScore(EngagementStatus(p)))
                       ELSE ("warning" :> "no_engagement_data")
        ff_details == IF followed
                      THEN ("ff_status" :> FFStatus(p)) @@ ("ff_score" :> FFScore(FFStatus(p)))
                      ELSE <<>>
        cl_details == IF commented
                      THEN ("cl_status" :> CLStatus(p)) @@ ("cl_score" :> CLScore(CLStatus(p)))
                      ELSE <<>>
    IN  [score |-> Points((IF engaged THEN EngagementScore(EngagementStatus(p)) ELSE 25)
                          + (IF followed THEN FFScore(FFStatus(p)) ELSE 15)
                          + (IF commented THEN CLScore(CLStatus(p)) ELSE 10)),
         details |-> eng_details @@ ff_details @@ cl_details]

(***************************************************************************)
(* InfluencerEvaluator._evaluate_relevance                                 *)
(***************************************************************************)
\* all_text: bio, captions and hashtags joined and lower-cased
AllText(p) == LowerText(p.bio \o Join(p.recent_captions) \o p.hashtags)

\* The value categories with a keyword in the text, with what was found
\* (occurring: the strings that occur in all_text).
GermanKeywordsFound(occurring) ==
    LET found == [category \in DOMAIN GERMAN_VALUE_KEYWORDS |->
                     [de |-> FoundAmong(GERMAN_VALUE_KEYWORDS[category].de, occurring),
                      en |-> FoundAmong(GERMAN_VALUE_KEYWORDS[category].en, occurring),
                      weight |-> GERMAN_VALUE_KEYWORDS[category].weight]]
    IN  [category \in {c \in DOMAIN found : found[c].de # <<>> \/ found[c].en # <<>>} |->
            found[category]]

\* german_score before the cap, in tenths of a point: each German keyword
\* gives 5 * weight, each English one 3 * weight (weights in tenths).
RECURSIVE GermanScoreSum(_, _)
GermanScoreSum(order, found) ==
    IF order = <<>> THEN 0
    ELSE (IF Head(order) \in DOMAIN found
          THEN Len(found[Head(order)].de) * 5 * found[Head(order)].weight
               + Len(found[Head(order)].en) * 3 * found[Head(order)].weight
          ELSE 0)
         + GermanScoreSum(Tail(order), found)

Min(a, b) == IF a <= b THEN a ELSE b

\* german_score = min(40, german_score)
GermanScore_Uncapped(found) == GermanScoreSum(ValueCategories, found)

GermanScore(found) == Min(Points(40), GermanScoreSum(ValueCategories, found))

NicheMatch(niche_match_count) ==
    IF niche_match_count >= 5 THEN "high_match"
    ELSE IF niche_match_count >= 3 THEN "match"
    ELSE IF niche_match_count >= 1 THEN "partial_match"
    ELSE "no_match"

NicheScore_NoMatchAsUnset(niche_match) ==
    CASE niche_match = "high_match" -> 40
      [] niche_match = "match" -> 30
      [] niche_match = "partial_match" -> 20
      [] niche_match = "no_match" -> 20

NicheScore(niche_match) ==
    CASE niche_match = "high_match" -> 40
      [] niche_match = "match" -> 30
      [] niche_match = "partial_match" -> 20
      [] niche_match = "no_match" -> 5

LanguageScore(german_word_count) ==
    IF german_word_count >= 5 THEN 20
    ELSE IF german_word_count >= 2 THEN 15
    ELSE 10

Language(german_word_count) ==
    IF german_word_count >= 5 THEN "mostly_german"
    ELSE IF german_word_count >= 2 THEN "some_german"
    ELSE "not_german"

\* _evaluate_relevance(profile) of an evaluator with the given target_niche:
\* [score, details, german_fit]
_evaluate_relevance(p, target_niche) ==
    LET all_text == AllText(p)
        occurring == Substrings(all_text)
        found == GermanKeywordsFound(occurring)
        niched == target_niche # None /\ target_niche[1] \in DOMAIN NICHE_KEYWORDS
        niche_match_count ==
            Len(FoundAmong(NICHE_KEYWORDS[target_niche[1]].de, occurring))
                + Len(FoundAmong(NICHE_KEYWORDS[target_niche[1]].en, occurring))
        german_word_count ==
            Cardinality({i \in 1..Len(GermanIndicators) : WordIn(GermanIndicators[i], all_text)})
        niche_details ==
            IF niched
            THEN ("niche_match" :> NicheMatch(niche_match_count))
                 @@ ("niche_score" :> ToString(NicheScore(NicheMatch(niche_match_count))))
            ELSE <<>>
    IN  [score |-> GermanScore(found)
                   + Points(IF niched THEN NicheScore(NicheMatch(niche_match_count)) ELSE 20)
                   + Points(LanguageScore(german_word_count)),
         details |-> niche_details
                     @@ ("language" :> Language(german_word_count))
                     @@ ("german_word_indicators" :> ToString(german_word_count)),
         german_fit |-> [keywords_found |-> found,
                         sustainability_focus |-> "sustainability" \in DOMAIN found]]

(***************************************************************************)
(* InfluencerEvaluator: total, grade, risks, recommendation, evaluate      *)
(***************************************************************************)
\* The default weights of __init__, in hundredths.
DefaultWeights == [activity |-> 25, authenticity |-> 40, relevance |-> 35]

\* self.weights = weights or {...}
WeightsOrDefault(weights) == IF weights = None THEN DefaultWeights ELSE weights[1]

\* total_score, in thousandths of a point
TotalScore_Unweighted(activity_score, auth_score, relevance_score, weights) ==
    (activity_score + auth_score + relevance_score) * 100

TotalScore(activity_score, auth_score, relevance_score, weights) ==
    activity_score * weights.activity
        + auth_score * weights.authenticity
        + relevance_score * weights.relevance

\* _calculate_grade(total_score)
_calculate_grade_ExclusiveLower(total_score) ==
    IF total_score > Whole(85) THEN "S"
    ELSE IF total_score > Whole(70) THEN "A"
    ELSE IF total_score > Whole(55) THEN "B"
    ELSE IF total_score > Whole(40) THEN "C"
    ELSE "D"

_calculate_grade(total_score) ==
    IF total_score >= Whole(85) THEN "S"
    ELSE IF total_score >= Whole(70) THEN "A"
    ELSE IF total_score >= Whole(55) THEN "B"
    ELSE IF total_score >= Whole(40) THEN "C"
    ELSE "D"

\* The risk flags (English tags for the messages).
RiskEngagementHigh == "engagement abnormally high"
RiskEngagementLow == "engagement low"
RiskFollowRatio == "follower/following ratio suspicious"
RiskBigAccountLowEngagement == "large account with low engagement"
RiskInactive == "more than 30 days since last post"

\* _identify_risks(profile, auth_details)
_identify_risks(p, auth_details) ==
    (IF Get(auth_details, "engagement_status", "") = "abnormally_high"
     THEN <<RiskEngagementHigh>>
     ELSE IF Get(auth_details, "engagement_status", "") = "low"
     THEN <<RiskEngagementLow>>
     ELSE <<>>)
    \o (IF Get(auth_details, "ff_status", "") = "suspicious" THEN <<RiskFollowRatio>> ELSE <<>>)
    \o (IF p.followers > 100000 /\ p.avg_likes < 500
        THEN <<RiskBigAccountLowEngagement>> ELSE <<>>)
    \o (IF Get(auth_details, "days_since_last_post", 0) > 30 THEN <<RiskInactive>> ELSE <<>>)

\* "; ".join(details)
RECURSIVE JoinText(_)
JoinText(details) ==
    IF Len(details) = 1 THEN Head(details)
    ELSE Head(details) \o "; " \o JoinText(Tail(details))

\* _generate_recommendation(grade, activity, auth, relevance, german_fit)
_generate_recommendation(grade, activity, auth, relevance, german_fit) ==
    LET base == CASE grade = "S" -> "strongly recommended"
                  [] grade = "A" -> "recommended"
                  [] grade = "B" -> "worth considering"
                  [] grade = "C" -> "consider with caution"
                  [] OTHER -> "not recommended"
        details ==
            (IF german_fit.sustainability_focus THEN <<"fits sustainable products">> ELSE <<>>)
            \o (IF Get(relevance, "niche_match", "") = "high_match"
                THEN <<"high niche match">> ELSE <<>>)
            \o (IF Get(auth, "engagement_status", "") = "normal"
                THEN <<"healthy engagement">> ELSE <<>>)
            \o (IF Get(activity, "posts_last_30d", 0) >= 8
                THEN <<"stable posting cadence">> ELSE <<>>)
    IN  IF details # <<>> THEN base \o ". " \o JoinText(details) \o "." ELSE base

\* evaluate(profile) of an evaluator, at the instant clock
evaluate(ev, p, clock) ==
    LET activity == _evaluate_activity(p, clock)
        auth == _evaluate_authenticity(p)
        relevance == _evaluate_relevance(p, ev.target_niche)
        total_score == TotalScore(activity.score, auth.score, relevance.score, ev.weights)
        grade == _calculate_grade(total_score)
    IN  [username |-> p.username,
         platform |-> p.platform,
         activity_score |-> activity.score,
         authenticity_score |-> auth.score,
         relevance_score |-> relevance.score,
         total_score |-> total_score,
         grade |-> grade,
         activity_details |-> activity.details,
         authenticity_details |-> auth.details,
         relevance_details |-> relevance.details,
         german_market_fit |-> relevance.german_fit,
         recommendation |-> _generate_recommendation(grade, activity.details, auth.details,
                                                   relevance.details, relevance.german_fit),
         risk_flags |-> _identify_risks(p, auth.details)]

(***************************************************************************)
(* The evaluator's operations.                                             *)
(***************************************************************************)
\* The target_niche arguments: None, a known niche, an unknown one.
TargetNiches == {None, Some("fashion"), Some("autos")}

\* The weights arguments: None (the defaults), and dicts in hundredths:
\* all on activity, all on authenticity, three halves (sum 1.5), and a
\* triple with a negative weight (sum 1.0).
WeightChoices ==
    {None,
     Some([activity |-> 100, authenticity |-> 0, relevance |-> 0]),
     Some([activity |-> 0, authenticity |-> 100, relevance |-> 0]),
     Some([activity |-> 50, authenticity |-> 50, relevance |-> 50]),
     Some([activity |-> 150, authenticity |-> -50, relevance |-> 0])}

\* The evaluators constructed: every niche with the default weights, and
\* every weight triple with the niche "fashion".
EvaluatorArguments ==
    {<<niche, None>> : niche \in TargetNiches}
        \cup {<<Some("fashion"), weights>> : weights \in WeightChoices}

EvalInit ==
    /\ now = 0
    /\ profile \in Profiles
    /\ evaluator = None
    /\ evaluations = <<>>
    /\ RiskIdle
    /\ BatchIdle
    /\ NlpIdle
    /\ RankIdle
    /\ ContentIdle
    /\ ImportIdle

\* InfluencerEvaluator(target_niche, weights)
InfluencerEvaluator_init(target_niche, weights) ==
    /\ evaluator = None
    /\ evaluator' = Some([target_niche |-> target_niche,
                          weights |-> WeightsOrDefault(weights)])
    /\ UNCHANGED <<now, profile, evaluations, riskVars, batchVars, nlpVars, rankVars, contentVars, importVars>>

\* evaluator.evaluate(profile); the first and the latest result are kept.
InfluencerEvaluator_evaluate ==
    /\ evaluator # None
    /\ LET result == [at |-> now, result |-> evaluate(evaluator[1], profile, now)]
       IN  evaluations' = IF evaluations = <<>> THEN <<result>>
                          ELSE <<evaluations[1], result>>
    /\ UNCHANGED <<now, profile, evaluator, riskVars, batchVars, nlpVars, rankVars, contentVars, importVars>>

\* Wall-clock time passes.
Tick ==
    /\ now < MaxTicks
    /\ now' = now + 1
    /\ UNCHANGED <<profile, evaluator, evaluations, riskVars, batchVars, nlpVars, rankVars, contentVars, importVars>>

EvalNext ==
    \/ \E args \in EvaluatorArguments : InfluencerEvaluator_init(args[1], args[2])
    \/ InfluencerEvaluator_evaluate
    \/ Tick

EvalSpec == EvalInit /\ [][EvalNext]_vars

(***************************************************************************)
(* Claims about InfluencerEvaluator (EvalSpec).                            *)
(***************************************************************************)
\* The results returned so far, each with the instant of its evaluation.
Evaluated == {evaluations[i] : i \in 1..Len(evaluations)}

InRange(score) == 0 <= score /\ score <= Points(100)

\* C4: each of the three sub-scores of every evaluation lies in [0, 100].
C4_SubScoresInRange ==
    \A e \in Evaluated :
        /\ InRange(e.result.activity_score)
        /\ InRange(e.result.authenticity_score)
        /\ InRange(e.result.relevance_score)

\* An evaluation whose value keywords alone give more than 40 points, with
\* the niche and language components at their maxima: relevance is 100.
C4_Witness ==
    \E e \in Evaluated :
        /\ GermanScoreSum(ValueCategories, e.result.german_market_fit.keywords_found)
              > Points(40)
        /\ e.result.relevance_score = Points(100)
        /\ e.result.activity_score = Points(100)

\* The weights of the evaluator: their sum, and whether none is negative.
WeightSum(weights) == weights.activity + weights.authenticity + weights.relevance

NonNegative(weights) ==
    weights.activity >= 0 /\ weights.authenticity >= 0 /\ weights.relevance >= 0

WeightedTotal(result, weights) ==
    result.activity_score * weights.activity
        + result.authenticity_score * weights.authenticity
        + result.relevance_score * weights.relevance

\* C5 as stated: for every weight triple summing to 1.0 the total is the
\* weighted sum of the sub-scores and lies in [0, 100].
C5_TotalInRange_AnyWeights ==
    \A e \in Evaluated :
        WeightSum(evaluator[1].weights) = 100 =>
            /\ e.result.total_score = WeightedTotal(e.result, evaluator[1].weights)
            /\ 0 <= e.result.total_score
            /\ e.result.total_score <= Whole(100)

\* C5, amended: for every triple of non-negative weights summing to 1.0 the
\* total is the weighted sum of the sub-scores and lies in [0, 100].
C5_TotalInRange ==
    \A e \in Evaluated :
        (WeightSum(evaluator[1].weights) = 100 /\ NonNegative(evaluator[1].weights)) =>
            /\ e.result.total_score = WeightedTotal(e.result, evaluator[1].weights)
            /\ 0 <= e.result.total_score
            /\ e.result.total_score <= Whole(100)

\* An evaluation under the default weights whose three sub-scores differ and
\* whose total is above 85.
C5_Witness ==
    \E e \in Evaluated :
        /\ evaluator[1].weights = DefaultWeights
        /\ e.result.activity_score # e.result.authenticity_score
        /\ e.result.authenticity_score # e.result.relevance_score
        /\ e.result.total_score > Whole(85)
        /\ e.result.total_score < Whole(100)

\* C6: the grade is S from 85, A from 70, B from 55, C from 40 (each bound
\* included) and D below 40.
C6_GradeThresholds ==
    \A e \in Evaluated :
        LET total == e.result.total_score
            grade == e.result.grade
        IN  /\ grade = "S" <=> total >= Whole(85)
            /\ grade = "A" <=> (Whole(70) <= total /\ total < Whole(85))
            /\ grade = "B" <=> (Whole(55) <= total /\ total < Whole(70))
            /\ grade = "C" <=> (Whole(40) <= total /\ total < Whole(55))
            /\ grade = "D" <=> total < Whole(40)

\* An evaluation whose total is exactly 85, graded S.
C6_Witness ==
    \E e \in Evaluated : e.result.total_score = Whole(85) /\ e.result.grade = "S"

\* C7: two evaluations of the same profile by the same evaluator return the
\* same sub-scores, total, grade, risk flags and recommendation, whatever
\* time passes between them.
Outcome(result) ==
    <<result.activity_score, result.authenticity_score, result.relevance_score,
      result.total_score, result.grade, result.risk_flags, result.recommendation>>

C7_EvaluateIsIdempotent ==
    Len(evaluations) = 2 => Outcome(evaluations[1].result) = Outcome(evaluations[2].result)

\* C8: an evaluator whose weights do not sum to 1.0 is never constructed, so
\* no total is ever computed with such weights.
C8_WeightsSumToOne ==
    evaluations # <<>> => WeightSum(evaluator[1].weights) = 100

\* C9: the risk flags of an evaluation hold the inactivity flag exactly when
\* the newest post date is more than 30 days before the evaluation.
C9_InactivityFlag ==
    \A e \in Evaluated :
        (\E i \in 1..Len(e.result.risk_flags) : e.result.risk_flags[i] = RiskInactive)
            <=> /\ profile.recent_post_dates # <<>>
                /\ e.at - MaxOf(profile.recent_post_dates) > 30 * TicksPerDay

(***************************************************************************)
(* RiskDetector.batch_detect, the filters, generate_risk_report.           *)
(***************************************************************************)
\* The content and rating of the records of a list.
RecordInputs == {<<<<"Anwalt">>, 5>>, <<<<"Geld zurück">>, 5>>, <<<<"okay">>, 1>>}

\* What a record's analysis fields hold before a call: the dataclass
\* defaults (never analysed) or the result of an earlier analysis.
PriorAnalyses ==
    {[risk_level |-> None, risk_flags |-> <<>>],
     [risk_level |-> Some(CRITICAL), risk_flags |-> <<"legal:1">>]}

\* A ReviewSchema record (the fields the risk engine reads and writes).
ReviewSchema(review_id, input, prior) ==
    [review_id |-> review_id, content |-> input[1], rating |-> Some(input[2]),
     risk_level |-> prior.risk_level, risk_flags |-> prior.risk_flags]

\* The lists of records, review_id being the position in the list.
ReviewLists ==
    UNION {{[i \in 1..n |-> ReviewSchema(i, f[i][1], f[i][2])] :
                f \in [1..n -> RecordInputs \X PriorAnalyses]} : n \in 0..MaxReviews}

\* batch_detect(reviews) of a detector whose keyword lists are risk_keywords:
\* the list after the loop has assigned risk_level and risk_flags of each record.
batch_detect_KeepsAnalysed(risk_keywords, list) ==
    [i \in 1..Len(list) |->
        LET result == detect(risk_keywords, list[i].content, list[i].rating)
        IN  IF list[i].risk_level # None THEN list[i]
            ELSE [list[i] EXCEPT !.risk_level = Some(result.risk_level),
                                 !.risk_flags = result.flags]]

batch_detect(risk_keywords, list) ==
    [i \in 1..Len(list) |->
        LET result == detect(risk_keywords, list[i].content, list[i].rating)
        IN  [list[i] EXCEPT !.risk_level = Some(result.risk_level),
                            !.risk_flags = result.flags]]

\* [r for r in reviews if r.risk_level == RiskLevel.CRITICAL]
get_critical_reviews(list) ==
    SelectSeq(list, LAMBDA r : r.risk_level = Some(CRITICAL))

\* [r for r in reviews if r.risk_level in [RiskLevel.CRITICAL, RiskLevel.HIGH]]
get_high_risk_reviews_HighOnly(list) ==
    SelectSeq(list, LAMBDA r : r.risk_level = Some(HIGH))

get_high_risk_reviews(list) ==
    SelectSeq(list, LAMBDA r : r.risk_level \in {Some(CRITICAL), Some(HIGH)})

\* [r.review_id for r in list]
ReviewIds(list) == [i \in 1..Len(list) |-> list[i].review_id]

\* risk_counts: the number of analysed records of each level.
RiskCounts(list) ==
    [level \in RiskLevel |->
        Cardinality({i \in 1..Len(list) : list[i].risk_level = Some(level)})]

\* The action items of the report (priority and the reviews concerned; the
\* priorities are "urgent" and "high" in the source's language).
ActionItems(critical, high_risk) ==
    (IF critical # <<>>
     THEN <<[priority |-> "urgent", reviews |-> ReviewIds(critical)]>>
     ELSE <<>>)
    \o (IF Len(high_risk) > Len(critical)
        THEN <<[priority |-> "high",
                reviews |-> ReviewIds(SelectSeq(high_risk,
                               LAMBDA r : \A k \in 1..Len(critical) : critical[k] # r))]>>
        ELSE <<>>)

\* ShopifyDataImporter.generate_risk_report(reviews)
generate_risk_report(list) ==
    LET critical == get_critical_reviews(list)
        high_risk == get_high_risk_reviews(list)
    IN  [total_reviews |-> Len(list),
         risk_distribution |-> RiskCounts(list),
         critical_count |-> Len(critical),
         high_risk_count |-> Len(high_risk),
         critical_reviews |-> critical,
         high_risk_reviews |-> high_risk,
         action_items |-> ActionItems(critical, high_risk)]

BatchInit ==
    /\ RISK_KEYWORDS = InitialRiskKeywords
    /\ detectors = <<>>
    /\ review = [content |-> <<>>, rating |-> None]
    /\ lastDetect = NoDetect
    /\ reviews \in ReviewLists
    /\ batchCall = None
    /\ riskReport = None
    /\ EvalIdle
    /\ NlpIdle
    /\ RankIdle
    /\ ContentIdle
    /\ ImportIdle

\* detectors[d].batch_detect(reviews): the records are updated in place and
\* the list itself is returned.
RiskDetector_batch_detect(d) ==
    /\ d \in 1..Len(detectors)
    /\ LET keywords == DetectorKeywords(detectors[d], RISK_KEYWORDS)
           returned == batch_detect(keywords, reviews)
       IN  /\ reviews' = returned
           /\ batchCall' = Some([who |-> d, keywords |-> keywords,
                                 before |-> reviews, returned |-> returned])
    /\ UNCHANGED <<riskVars, riskReport, evalVars, nlpVars, rankVars, contentVars, importVars>>

\* importer.generate_risk_report(reviews)
ShopifyDataImporter_generate_risk_report ==
    /\ riskReport' = Some([reviews |-> reviews, report |-> generate_risk_report(reviews)])
    /\ UNCHANGED <<riskVars, reviews, batchCall, evalVars, nlpVars, rankVars, contentVars, importVars>>

BatchNext ==
    \/ \E custom_keywords \in CustomKeywordChoices : RiskDetector_init(custom_keywords)
    \/ \E d \in 1..MaxDetectors : RiskDetector_batch_detect(d)
    \/ ShopifyDataImporter_generate_risk_report

BatchSpec == BatchInit /\ [][BatchNext]_vars

(***************************************************************************)
(* Claims about batch_detect and the filters (BatchSpec).                  *)
(***************************************************************************)
\* C11: batch_detect processes every record: afterwards each record's
\* risk_level and risk_flags are those of detect(content, rating) of the same
\* detector, whatever they held before, the other fields are untouched, and
\* what is returned is the caller's list, same records in the same order.
C11_BatchDetect ==
    batchCall # None =>
        LET call == batchCall[1]
        IN  /\ call.returned = reviews
            /\ Len(call.returned) = Len(call.before)
            /\ \A i \in 1..Len(call.before) :
                   LET old == call.before[i]
                       new == call.returned[i]
                       result == detect(call.keywords, old.content, old.rating)
                   IN  /\ new.review_id = old.review_id
                       /\ new.content = old.content
                       /\ new.rating = old.rating
                       /\ new.risk_level = Some(result.risk_level)
                       /\ new.risk_flags = result.flags

\* A list of three records is processed; its last record, analysed earlier
\* as CRITICAL with the flag legal:1, now holds a lower level and other flags.
C11_Witness ==
    /\ batchCall # None
    /\ Len(batchCall[1].before) = 3
    /\ batchCall[1].before[3].risk_level = Some(CRITICAL)
    /\ batchCall[1].before[3].risk_flags = <<"legal:1">>
    /\ batchCall[1].returned[3].risk_level = Some(MEDIUM)
    /\ batchCall[1].returned[3].risk_flags = <<"low_rating">>
    /\ batchCall[1].returned[1].risk_level = Some(CRITICAL)

\* result is the records of list whose level is in levels, in list order.
IsFilterOf(result, list, levels) ==
    LET kept == {i \in 1..Len(list) : list[i].risk_level \in {Some(l) : l \in levels}}
    IN  /\ Len(result) = Cardinality(kept)
        /\ \A k \in 1..Len(result) :
               \E i \in kept : /\ result[k] = list[i]
                               /\ Cardinality({j \in kept : j < i}) = k - 1

Blank == " "
Stop == "."

RECURSIVE Gcd(_, _)
Gcd(a, b) == IF b = 0 THEN a ELSE Gcd(b, a % b)

\* n / d
Ratio(n, d) == LET g == Gcd(n, d) IN <<n \div g, d \div g>>

RatioSum(a, b) == Ratio(a[1] * b[2] + b[1] * a[2], a[2] * b[2])

Less(a, b) == a[1] * b[2] < b[1] * a[2]

\* sum(list)
RECURSIVE SumOf(_)
SumOf(list) == IF list = <<>> THEN <<0, 1>> ELSE RatioSum(Head(list), SumOf(Tail(list)))

\* sum(list) / len(list)
MeanOf(list) == LET total == SumOf(list) IN Ratio(total[1], total[2] * Len(list))

\* round(n / d): the nearest integer, a tie going to the even one.
RoundHalfEven(n, d) ==
    LET q == n \div d
        r == n % d
    IN  IF 2 * r < d THEN q
        ELSE IF 2 * r > d THEN q + 1
        ELSE IF q % 2 = 0 THEN q ELSE q + 1

\* round(x, 3), in thousandths
Round3(x) == RoundHalfEven(x[1] * 1000, x[2])

\* re.sub(r'\s+', ' ', text)
RECURSIVE CollapseBlanks(_)
CollapseBlanks(text) ==
    IF Len(text) < 2 THEN text
    ELSE IF text[1] = Blank /\ text[2] = Blank THEN CollapseBlanks(Tail(text))
    ELSE <<text[1]>> \o CollapseBlanks(Tail(text))

RECURSIVE StripLeft(_)
StripLeft(text) ==
    IF text # <<>> /\ Head(text) = Blank THEN StripLeft(Tail(text)) ELSE text

\* text.strip()
Strip(text) == Reverse(StripLeft(Reverse(StripLeft(text))))

\* normalize_german_text(text, keep_umlauts=True); the tokens are in NFC.
normalize_german_text(text) == Strip(CollapseBlanks(text))

RECURSIVE DropStops(_)
DropStops(text) ==
    IF text # <<>> /\ Head(text) = Stop THEN DropStops(Tail(text)) ELSE text

\* re.sub(r'\.{2,}', '...', text)
RECURSIVE FixDots(_)
FixDots(text) ==
    IF text = <<>> THEN <<>>
    ELSE IF Head(text) = Stop /\ Len(text) >= 2 /\ text[2] = Stop
         THEN <<Stop, Stop, Stop>> \o FixDots(DropStops(text))
    ELSE <<Head(text)>> \o FixDots(Tail(text))

\* clean_review_text(text); the tokens hold no markup, URL, address or
\* character outside the kept set, so only the last three steps act.
clean_review_text(text) == Strip(CollapseBlanks(FixDots(text)))

\* re.split(r'[.!?]+', text)
RECURSIVE SplitAtStops(_, _)
SplitAtStops(text, piece) ==
    IF text = <<>> THEN <<piece>>
    ELSE IF Head(text) = Stop
         THEN <<piece>> \o SplitAtStops(DropStops(text), <<>>)
    ELSE SplitAtStops(Tail(text), Append(piece, Head(text)))

\* ABSAExtractor._split_sentences(text)
_split_sentences(text) ==
    LET pieces == SplitAtStops(text, <<>>)
    IN  SelectSeq([i \in 1..Len(pieces) |-> Strip(pieces[i])], LAMBDA piece : piece # <<>>)

(***************************************************************************)
(* GermanSentimentAnalyzer.analyze                                         *)
(*                                                                         *)
(* The pretrained pipeline is a function from the cleaned text to its      *)
(* output: a label and a score in thousandths, or the label "error" when   *)
(* the call raises.                                                        *)
(***************************************************************************)
POSITIVE == "positive"
NEGATIVE == "negative"
NEUTRAL == "neutral"
UNCERTAIN == "uncertain"

threshold_positive == Ratio(6, 10)
threshold_negative == Ratio(4, 10)

PipelineError == [label |-> "error", score |-> 0]

\* _score_to_label(score, confidence)
_score_to_label(score, confidence) ==
    IF Less(confidence, Ratio(5, 10)) THEN UNCERTAIN
    ELSE IF ~Less(score, threshold_positive) THEN POSITIVE
    ELSE IF ~Less(threshold_negative, score) THEN NEGATIVE
    ELSE NEUTRAL

\* The SentimentResult of an empty text and of a failed pipeline call.
UncertainResult == [label |-> UNCERTAIN, score |-> Ratio(5, 10), confidence |-> Ratio(0, 1)]

\* analyze(text) with the model loaded
analyze(pipeline, text) ==
    LET cleaned == normalize_german_text(clean_review_text(text))
    IN  IF cleaned = <<>> THEN UncertainResult
        ELSE LET output == pipeline[cleaned]
                 confidence == Ratio(output.score, 1000)
                 score == IF output.label = POSITIVE THEN confidence
                          ELSE IF output.label = NEGATIVE
                               THEN Ratio(1000 - output.score, 1000)
                          ELSE Ratio(5, 10)
             IN  IF output = PipelineError THEN UncertainResult
                 ELSE [label |-> _score_to_label(score, confidence),
                       score |-> score, confidence |-> confidence]

(***************************************************************************)
(* ABSAExtractor                                                           *)
(***************************************************************************)
\* The aspects of ASPECT_CONFIG in the table's order.
Aspects ==
    <<"Lieferung", "Qualität", "Aussehen", "Verpackung", "Preis",
      "Kundenservice", "Größe", "Material", "Funktionalität">>

AspectSet == {Aspects[i] : i \in 1..Len(Aspects)}

\* ASPECT_CONFIG: the label "zh" is rendered in English.
ASPECT_CONFIG ==
    [aspect \in AspectSet |->
        CASE aspect = "Lieferung" ->
                [zh |-> "delivery",
                 keywords |-> <<"versand", "lieferung", "lieferzeit", "zustellung", "paket",
                                "dhl", "hermes", "post", "angekommen", "geliefert">>]
          [] aspect = "Qualität" ->
                [zh |-> "quality",
                 keywords |-> <<"qualität", "verarbeitung", "haltbar", "robust", "stabil",
                                "billig", "minderwertig", "hochwertig">>]
          [] aspect = "Aussehen" ->
                [zh |-> "appearance",
                 keywords |-> <<"design", "aussehen", "farbe", "optik", "schön",
                                "hässlich", "elegant", "stil", "look">>]
          [] aspect = "Verpackung" ->
                [zh |-> "packaging",
                 keywords |-> <<"verpackung", "karton", "schutz", "beschädigt",
                                "verpackt", "schachtel", "box">>]
          [] aspect = "Preis" ->
                [zh |-> "price",
                 keywords |-> <<"preis", "wert", "günstig", "teuer", "geld", "kosten",
                                "bezahlt", "preiswert", "überteuert">>]
          [] aspect = "Kundenservice" ->
                [zh |-> "service",
                 keywords |-> <<"kundenservice", "service", "kontakt", "antwort", "hilfe",
                                "support", "erreichbar", "freundlich">>]
          [] aspect = "Größe" ->
                [zh |-> "size",
                 keywords |-> <<"größe", "size", "passt", "klein", "groß", "eng", "weit",
                                "länge", "breite">>]
          [] aspect = "Material" ->
                [zh |-> "material",
                 keywords |-> <<"material", "stoff", "leder", "kunststoff", "metall",
                                "holz", "baumwolle", "polyester">>]
          [] aspect = "Funktionalität" ->
                [zh |-> "functionality",
                 keywords |-> <<"funktion", "funktioniert", "funktional", "praktisch",
                                "nützlich", "verwendung", "einfach">>]]

\* _find_aspects(text): the aspects with a keyword in the text and the
\* keywords found, in the order of the keyword index (no keyword belongs to
\* two aspects, so the index lists the aspects in the table's order).
_find_aspects(text) ==
    LET occurring == Substrings(LowerText(text))
        found == [i \in 1..Len(Aspects) |->
                     [aspect |-> Aspects[i],
                      keywords |-> FoundAmong(ASPECT_CONFIG[Aspects[i]].keywords, occurring)]]
    IN  SelectSeq(found, LAMBDA f : f.keywords # <<>>)

\* The position of an aspect among the entries of all_aspects, 0 if absent.
IndexOfAspect(all_aspects, aspect) ==
    IF \E k \in 1..Len(all_aspects) : all_aspects[k].aspect = aspect
    THEN CHOOSE k \in 1..Len(all_aspects) : all_aspects[k].aspect = aspect
    ELSE 0

\* The inner loop of step 1: the aspects found in one sentence are entered
\* into all_aspects (a dict, kept in insertion order).
RECURSIVE AddSentence(_, _, _)
AddSentence(all_aspects, sentence, found) ==
    IF found = <<>> THEN all_aspects
    ELSE LET aspect == Head(found).aspect
             keywords == {Head(found).keywords[i] : i \in 1..Len(Head(found).keywords)}
             k == IndexOfAspect(all_aspects, aspect)
             entered ==
                 IF k = 0
                 THEN Append(all_aspects, [aspect |-> aspect, sentences |-> <<sentence>>,
                                           keywords |-> keywords])
                 ELSE [all_aspects EXCEPT
                          ![k].sentences = Append(@, sentence),
                          ![k].keywords = @ \cup keywords]
         IN  AddSentence(entered, sentence, Tail(found))

\* Step 1 of extract: the loop over the sentences.
RECURSIVE CollectAspects(_, _)
CollectAspects(sentences, all_aspects) ==
    IF sentences = <<>> THEN all_aspects
    ELSE CollectAspects(Tail(sentences),
                        AddSentence(all_aspects, Head(sentences),
                                    _find_aspects(Head(sentences))))

\* data["sentences"][:2]
Evidence_AllSentences(sentences) == sentences

Evidence(sentences) == SubSeq(sentences, 1, IF Len(sentences) < 2 THEN Len(sentences) ELSE 2)

\* Step 2 of extract for one aspect: its AspectSentiment.
ScoreAspect(pipeline, data) ==
    LET results == [i \in 1..Len(data.sentences) |-> analyze(pipeline, data.sentences[i])]
        scores == [i \in 1..Len(results) |-> results[i].score]
        confidences == [i \in 1..Len(results) |-> results[i].confidence]
    IN  [aspect_de |-> data.aspect,
         aspect_zh |-> ASPECT_CONFIG[data.aspect].zh,
         score |-> IF scores # <<>> THEN MeanOf(scores) ELSE Ratio(5, 10),
         confidence |-> IF confidences # <<>> THEN MeanOf(confidences) ELSE Ratio(0, 1),
         evidence |-> Evidence(data.sentences),
         keywords_found |-> data.keywords]

\* Step 3 of extract: the overall score.
OverallScore_SumOfAspects(pipeline, text, aspect_results) ==
    IF aspect_results # <<>>
    THEN SumOf([i \in 1..Len(aspect_results) |-> aspect_results[i].score])
    ELSE analyze(pipeline, text).score

OverallScore(pipeline, text, aspect_results) ==
    IF aspect_results # <<>>
    THEN MeanOf([i \in 1..Len(aspect_results) |-> aspect_results[i].score])
    ELSE analyze(pipeline, text).score

\* {a.aspect_zh: a.score for a in aspect_results}
Summary(aspect_results) ==
    [zh \in {aspect_results[i].aspect_zh : i \in 1..Len(aspect_results)} |->
        LET last == CHOOSE i \in 1..Len(aspect_results) :
                        /\ aspect_results[i].aspect_zh = zh
                        /\ \A j \in i + 1..Len(aspect_results) : aspect_results[j].aspect_zh # zh
        IN  aspect_results[last].score]

\* ABSAExtractor.extract(text), sentiment_analyzer being a loaded
\* GermanSentimentAnalyzer with the given pipeline.
extract(pipeline, raw_text) ==
    LET text == normalize_german_text(raw_text)
        sentences == _split_sentences(text)
        all_aspects == CollectAspects(sentences, <<>>)
        aspect_results == [i \in 1..Len(all_aspects) |-> ScoreAspect(pipeline, all_aspects[i])]
    IN  [text |-> text,
         aspects |-> aspect_results,
         overall_score |-> OverallScore(pipeline, text, aspect_results),
         summary |-> Summary(aspect_results)]

\* The words of the texts given to extract: "Versand" holds a keyword of
\* Lieferung, "hochwertig" one of Qualität and ("wert") one of Preis, "gut" none.
AbsaWords == {"Versand", "hochwertig", "gut"}

NoAdjacentWords(text) ==
    \A i \in 1..Len(text) - 1 : text[i] \in {Blank, Stop} \/ text[i + 1] \in {Blank, Stop}

AbsaTexts ==
    {text \in SeqsUpTo(AbsaWords \cup {Blank, Stop}, MaxAbsaLen) : NoAdjacentWords(text)}

\* What the pipeline may answer for a text.
PipelineOutputs ==
    {[label |-> POSITIVE, score |-> 900], [label |-> NEGATIVE, score |-> 800], PipelineError}

\* The cleaned texts the pipeline may be called with during extract(raw_text).
AnalysedTexts(raw_text) ==
    LET text == normalize_german_text(raw_text)
        sentences == _split_sentences(text)
        cleaned == {normalize_german_text(clean_review_text(text))}
                       \cup {normalize_german_text(clean_review_text(sentences[i])) :
                                i \in 1..Len(sentences)}
    IN  cleaned \ {<<>>}

\* The calls of extract: a text and the pipeline of the analyzer given to
\* the extractor.
AbsaCalls ==
    UNION {{[text |-> text, pipeline |-> pipeline, result |-> None] :
                pipeline \in [AnalysedTexts(text) -> PipelineOutputs]} : text \in AbsaTexts}

AbsaInit ==
    /\ absaCall \in AbsaCalls
    /\ analyzer = None
    /\ lastCall = None
    /\ RiskIdle
    /\ EvalIdle
    /\ BatchIdle
    /\ RankIdle
    /\ ContentIdle
    /\ ImportIdle

\* ABSAExtractor(sentiment_analyzer).extract(text)
ABSAExtractor_extract ==
    /\ absaCall.result = None
    /\ absaCall' = [absaCall EXCEPT
                       !.result = Some(extract(absaCall.pipeline, absaCall.text))]
    /\ UNCHANGED <<analyzer, lastCall, riskVars, evalVars, batchVars, rankVars, contentVars, importVars>>

AbsaNext == ABSAExtractor_extract

AbsaSpec == AbsaInit /\ [][AbsaNext]_vars

(***************************************************************************)
(* Claims about ABSAExtractor.extract (AbsaSpec).                          *)
(***************************************************************************)
\* The keywords of an aspect, as a set.
KeywordsOf(aspect) ==
    {ASPECT_CONFIG[aspect].keywords[i] : i \in 1..Len(ASPECT_CONFIG[aspect].keywords)}

\* One of the aspect's keywords occurs in the text.
Mentions(text, aspect) == KeywordsOf(aspect) \cap Substrings(LowerText(text)) # {}

\* The sentences of the call's text that mention the aspect, in order.
MatchingSentences(call, aspect) ==
    SelectSeq(_split_sentences(normalize_german_text(call.text)),
              LAMBDA sentence : Mentions(sentence, aspect))

\* The AspectSentiment entries a result holds for an aspect.
EntriesFor(result, aspect) ==
    {i \in 1..Len(result.aspects) : result.aspects[i].aspect_de = aspect}

InUnitInterval(x) == ~Less(x, Ratio(0, 1)) /\ ~Less(Ratio(1, 1), x)

\* C13: overall_score is in [0,1]; it is the unweighted mean of the detected
\* aspects' scores when an aspect was detected, and the score the sentiment
\* analyzer gives the whole text when no aspect keyword occurs in the text.
C13_OverallScore ==
    absaCall.result # None =>
        LET result == absaCall.result[1]
            n == Len(result.aspects)
        IN  /\ InUnitInterval(result.overall_score)
            /\ n > 0 =>
                   Ratio(result.overall_score[1] * n, result.overall_score[2])
                       = SumOf([i \in 1..n |-> result.aspects[i].score])
            /\ (\A aspect \in AspectSet : ~Mentions(absaCall.text, aspect)) =>
                   /\ n = 0
                   /\ result.overall_score = analyze(absaCall.pipeline, absaCall.text).score

\* Three aspects with the scores 9/10, 1/5 and 1/5: the overall score is 13/30.
C13_Witness ==
    /\ absaCall.result # None
    /\ Len(absaCall.result[1].aspects) = 3
    /\ absaCall.result[1].aspects[1].score = Ratio(9, 10)
    /\ absaCall.result[1].aspects[2].score = Ratio(2, 10)
    /\ absaCall.result[1].overall_score = Ratio(13, 30)

\* C14: one AspectSentiment for each aspect mentioned in a sentence and
\* none for any other; its evidence is the first two sentences mentioning
\* it; a text of blanks only or without keywords has no AspectSentiment.
C14_OnePerMentionedAspect ==
    absaCall.result # None =>
        LET result == absaCall.result[1]
        IN  /\ \A aspect \in AspectSet :
                   LET matching == MatchingSentences(absaCall, aspect)
                       entries == EntriesFor(result, aspect)
                   IN  IF matching = <<>> THEN entries = {}
                       ELSE /\ Cardinality(entries) = 1
                            /\ \A i \in entries :
                                   result.aspects[i].evidence =
                                       IF Len(matching) <= 2 THEN matching
                                       ELSE <<matching[1], matching[2]>>
            /\ \A i \in 1..Len(result.aspects) : result.aspects[i].aspect_de \in AspectSet
            /\ ((\A i \in 1..Len(absaCall.text) : absaCall.text[i] = Blank)
                   \/ (\A aspect \in AspectSet : ~Mentions(absaCall.text, aspect)))
                   => result.aspects = <<>>

\* Three sentences mention Lieferung and no other aspect is mentioned: the
\* only AspectSentiment is Lieferung's, with the first two of its three
\* sentences as evidence.
C14_Witness ==
    /\ absaCall.result # None
    /\ Len(MatchingSentences(absaCall, "Lieferung")) = 3
    /\ Len(absaCall.result[1].aspects) = 1
    /\ absaCall.result[1].aspects[1].aspect_de = "Lieferung"
    /\ Len(absaCall.result[1].aspects[1].evidence) = 2

\* The sentences of a list the pipeline does not fail on.
Scored(call, sentences) ==
    SelectSeq(sentences,
              LAMBDA sentence :
                  call.pipeline[normalize_german_text(clean_review_text(sentence))]
                      # PipelineError)

\* C15: a sentence the sentiment scoring fails on is left out of the
\* aspect's averages: the score and the confidence of an aspect are the
\* means over the sentences that were scored.
C15_FailedSentenceIsSkipped ==
    absaCall.result # None =>
        \A i \in 1..Len(absaCall.result[1].aspects) :
            LET entry == absaCall.result[1].aspects[i]
                scored == Scored(absaCall, MatchingSentences(absaCall, entry.aspect_de))
                results == [k \in 1..Len(scored) |-> analyze(absaCall.pipeline, scored[k])]
            IN  scored # <<>> =>
                    /\ entry.score = MeanOf([k \in 1..Len(results) |-> results[k].score])
                    /\ entry.confidence =
                           MeanOf([k \in 1..Len(results) |-> results[k].confidence])

(***************************************************************************)
(* german_utils: keywords and sentiment words.                             *)
(***************************************************************************)
GERMAN_STOPWORDS ==
    {"der", "die", "das", "den", "dem", "des",
     "ein", "eine", "einer", "einem", "einen", "eines",
     "und", "oder", "aber", "doch", "sondern", "denn", "weder", "noch",
     "ist", "sind", "war", "waren", "sein", "wird", "werden", "wurde", "wurden",
     "hat", "haben", "hatte", "hatten", "bin", "bist", "seid",
     "ich", "du", "er", "sie", "es", "wir", "ihr",
     "mein", "dein", "unser", "euer", "meine", "deine", "seine",
     "mir", "dir", "ihm", "uns", "euch", "ihnen",
     "nicht", "kein", "keine", "keiner", "nichts", "nie", "niemals",
     "mit", "bei", "nach", "von", "zu", "aus", "für", "über", "unter",
     "vor", "hinter", "neben", "zwischen", "durch", "gegen", "ohne", "um",
     "sehr", "auch", "nur", "schon", "immer", "wieder", "dann", "jetzt",
     "hier", "dort", "wo", "wann", "wie", "was", "wer", "warum",
     "kann", "muss", "soll", "will", "möchte", "darf", "können", "müssen",
     "ja", "nein", "vielleicht", "mehr", "weniger", "alle", "alles",
     "jeder", "jede", "jedes", "dieser", "diese", "dieses", "so", "als", "wenn"}

\* The word tables, in a fixed order (a Python set has no defined order; the
\* texts used here hold at most one word of each table).
ECOMMERCE_POSITIVE_WORDS ==
    <<"super", "toll", "perfekt", "ausgezeichnet", "hervorragend", "fantastisch",
      "wunderbar", "großartig", "empfehlenswert", "zufrieden", "schnell", "pünktlich">>

ECOMMERCE_NEGATIVE_WORDS ==
    <<"schlecht", "mangelhaft", "enttäuscht", "kaputt", "defekt", "langsam",
      "teuer", "billig", "schrecklich", "furchtbar", "ärgerlich", "beschädigt">>

\* The first occurrences of the elements of a list, in order.
RECURSIVE Dedupe(_)
Dedupe(list) ==
    IF list = <<>> THEN <<>>
    ELSE LET front == SubSeq(list, 1, Len(list) - 1)
             last == list[Len(list)]
         IN  IF \E i \in 1..Len(front) : front[i] = last
             THEN Dedupe(front)
             ELSE Append(Dedupe(front), last)

\* list[:n]
Take(list, n) == SubSeq(list, 1, IF Len(list) < n THEN Len(list) ELSE n)

\* extract_keywords(text): the words of the text (all of three letters or
\* more), lower-cased, without stop words, first occurrences, at most 20.
extract_keywords(text) ==
    LET tokens == SelectSeq(text, LAMBDA token : token \notin {Blank, Stop})
        kept == SelectSeq(tokens, LAMBDA token : Lower(token) \notin GERMAN_STOPWORDS)
    IN  Take(Dedupe(LowerText(kept)), 20)

\* detect_sentiment_words(text)
detect_sentiment_words(text) ==
    LET occurring == Substrings(LowerText(text))
        positive == FoundAmong(ECOMMERCE_POSITIVE_WORDS, occurring)
        negative == FoundAmong(ECOMMERCE_NEGATIVE_WORDS, occurring)
    IN  [positive_words |-> positive,
         negative_words |-> negative,
         sentiment_hint |-> IF Len(positive) > Len(negative) THEN "positive"
                            ELSE IF Len(negative) > Len(positive) THEN "negative"
                            ELSE "neutral"]

(***************************************************************************)
(* ABSAExtractor.aggregate                                                 *)
(***************************************************************************)
\* The entries of a list ordered by their count, largest first, entries of
\* equal count in the order of the list: sorted(..., reverse=True) and
\* Counter.most_common.
RECURSIVE SortByCountDesc(_)
SortByCountDesc(list) ==
    IF list = <<>> THEN <<>>
    ELSE LET sorted == SortByCountDesc(SubSeq(list, 1, Len(list) - 1))
             item == list[Len(list)]
             k == Cardinality({i \in 1..Len(sorted) : sorted[i].count >= item.count})
         IN  SubSeq(sorted, 1, k) \o <<item>> \o SubSeq(sorted, k + 1, Len(sorted))

\* The aspects of all results, in the order aggregate meets them.
AllAspects(results) ==
    Join([i \in 1..Len(results) |-> results[i].aspects])

\* dim_scores: each label met, in the order of first appearance, with the
\* list of its scores.
DimScores(results) ==
    LET all == AllAspects(results)
        dims == Dedupe([i \in 1..Len(all) |-> all[i].aspect_zh])
    IN  [d \in 1..Len(dims) |->
            LET mine == SelectSeq(all, LAMBDA asp : asp.aspect_zh = dims[d])
            IN  [dim |-> dims[d], scores |-> [i \in 1..Len(mine) |-> mine[i].score]]]

\* The statistics of one label: avg_score in thousandths, positive_rate in
\* tenths of a percent.
DimStats_AtLeast(dim_scores) ==
    LET scores == dim_scores.scores
        positive == Cardinality({i \in 1..Len(scores) : ~Less(scores[i], Ratio(6, 10))})
    IN  [dim |-> dim_scores.dim,
         avg_score |-> Round3(MeanOf(scores)),
         count |-> Len(scores),
         positive_rate |-> RoundHalfEven(positive * 1000, Len(scores))]

DimStats(dim_scores) ==
    LET scores == dim_scores.scores
        positive == Cardinality({i \in 1..Len(scores) : Less(Ratio(6, 10), scores[i])})
    IN  [dim |-> dim_scores.dim,
         avg_score |-> Round3(MeanOf(scores)),
         count |-> Len(scores),
         positive_rate |-> RoundHalfEven(positive * 1000, Len(scores))]

\* aggregate(results): the dict is kept as the list of its entries, in order.
aggregate(results) ==
    LET dim_scores == DimScores(results)
    IN  SortByCountDesc([d \in 1..Len(dim_scores) |-> DimStats(dim_scores[d])])

(***************************************************************************)
(* ReviewAnalyzer                                                          *)
(*                                                                         *)
(* An analyzer is [translate, model_available, pipeline, translator]:      *)
(* the flag given to the constructor and what its lazily built             *)
(* collaborators do: whether the sentiment model can be loaded, what its   *)
(* pipeline answers, and whether the translator works ("ok") or raises     *)
(* ("error").  A call returns a value or raises: Returned(v), Raised(e).   *)
(***************************************************************************)
Returned(value) == [raised |-> "", value |-> value]
Raised(exception) == [raised |-> exception, value |-> None]

\* translator.de_to_zh(text): the translation is not modelled, only that it
\* is one of the text.
de_to_zh(text) == <<"de_to_zh">> \o text

\* The value of translated_text after a failed translation (in the source
\* the same words in Chinese).
TranslationFailed == <<"[translation failed]">>

\* Step 5 of analyze_single: translated.
Translate_SilentFailure(an, text) ==
    IF an.translate
    THEN IF an.translator = "error" THEN <<>> ELSE de_to_zh(text)
    ELSE <<>>

Translate(an, text) ==
    IF an.translate
    THEN IF an.translator = "error" THEN TranslationFailed ELSE de_to_zh(text)
    ELSE <<>>

\* analyze_single(text)
analyze_single(an, text) ==
    IF ~an.model_available THEN Raised("OSError")
    ELSE LET sentiment_result == analyze(an.pipeline, text)
             absa_result == extract(an.pipeline, text)
         IN  Returned([original_text |-> text,
                       translated_text |-> Translate(an, text),
                       sentiment |-> sentiment_result.label,
                       sentiment_score |-> sentiment_result.score,
                       aspects |-> absa_result.summary,
                       keywords |-> extract_keywords(text),
                       sentiment_words |-> detect_sentiment_words(text)])

\* Counter(list): the count of each element, in the order of first appearance.
Counter(list) ==
    LET keys == Dedupe(list)
    IN  [k \in 1..Len(keys) |->
            [key |-> keys[k],
             count |-> Cardinality({i \in 1..Len(list) : list[i] = keys[k]})]]

\* [w for w, _ in Counter(words).most_common(10)]
MostCommon(words) ==
    LET ranked == Take(SortByCountDesc(Counter(words)), 10)
    IN  [i \in 1..Len(ranked) |-> ranked[i].key]

\* sentiment_dist.get(label, 0)
CountOf(sentiment_dist, label) ==
    IF \E i \in 1..Len(sentiment_dist) : sentiment_dist[i].key = label
    THEN (CHOOSE entry \in {sentiment_dist[i] : i \in 1..Len(sentiment_dist)} :
              entry.key = label).count
    ELSE 0

\* The insight on the overall sentiment (the message is not modelled, only
\* its kind and the rate it cites, in tenths of a percent).
OverallInsight_AtLeast(sentiment_dist, total) ==
    LET positive == CountOf(sentiment_dist, POSITIVE)
        negative == CountOf(sentiment_dist, NEGATIVE)
    IN  IF positive * 100 >= 60 * total
        THEN <<[kind |-> "positive_summary", dim |-> "",
                value |-> RoundHalfEven(positive * 1000, total)]>>
        ELSE IF negative * 100 >= 40 * total
        THEN <<[kind |-> "concern", dim |-> "",
                value |-> RoundHalfEven(negative * 1000, total)]>>
        ELSE <<>>

OverallInsight(sentiment_dist, total) ==
    LET positive == CountOf(sentiment_dist, POSITIVE)
        negative == CountOf(sentiment_dist, NEGATIVE)
    IN  IF positive * 100 > 60 * total
        THEN <<[kind |-> "positive_summary", dim |-> "",
                value |-> RoundHalfEven(positive * 1000, total)]>>
        ELSE IF negative * 100 > 40 * total
        THEN <<[kind |-> "concern", dim |-> "",
                value |-> RoundHalfEven(negative * 1000, total)]>>
        ELSE <<>>

\* The insight on one dimension (its kind, the dimension and the average it
\* cites, in thousandths).
AspectInsight_AnyCount(stats) ==
    IF stats.avg_score < 400
    THEN <<[kind |-> "pain_point", dim |-> stats.dim, value |-> stats.avg_score]>>
    ELSE IF stats.avg_score > 700
    THEN <<[kind |-> "selling_point", dim |-> stats.dim, value |-> stats.avg_score]>>
    ELSE <<>>

AspectInsight(stats) ==
    IF stats.count >= 3
    THEN IF stats.avg_score < 400
         THEN <<[kind |-> "pain_point", dim |-> stats.dim, value |-> stats.avg_score]>>
         ELSE IF stats.avg_score > 700
         THEN <<[kind |-> "selling_point", dim |-> stats.dim, value |-> stats.avg_score]>>
         ELSE <<>>
    ELSE <<>>

\* _generate_insights(sentiment_dist, dimension_scores, total)
_generate_insights(sentiment_dist, dimension_scores, total) ==
    OverallInsight(sentiment_dist, total)
        \o Join([d \in 1..Len(dimension_scores) |-> AspectInsight(dimension_scores[d])])

\* The report analyze_batch builds from the analysed reviews (steps 2 to 6).
ReviewReport(texts, clock, reviews_, sentiment_dist, dimension_scores) ==
    [total_reviews |-> Len(texts),
     analyzed_at |-> clock,
     sentiment_distribution |-> sentiment_dist,
     average_score |->
         Round3(MeanOf([i \in 1..Len(reviews_) |-> reviews_[i].sentiment_score])),
     dimension_scores |-> dimension_scores,
     top_positive_keywords |->
         MostCommon(Join([i \in 1..Len(reviews_) |->
                             reviews_[i].sentiment_words.positive_words])),
     top_negative_keywords |->
         MostCommon(Join([i \in 1..Len(reviews_) |->
                             reviews_[i].sentiment_words.negative_words])),
     key_insights |-> _generate_insights(sentiment_dist, dimension_scores, Len(texts)),
     reviews |-> reviews_]

\* analyze_batch after its loop, singles being the outcomes of the calls of
\* analyze_single: the first exception raised in the loop leaves
\* analyze_batch, and so does the division by len(reviews) of an empty batch.
BatchOutcome(an, texts, clock, singles) ==
    IF \E i \in 1..Len(singles) : singles[i].raised # ""
    THEN Raised(singles[CHOOSE i \in 1..Len(singles) :
                            /\ singles[i].raised # ""
                            /\ \A j \in 1..i - 1 : singles[j].raised = ""].raised)
    ELSE IF texts = <<>> THEN Raised("ZeroDivisionError")
    ELSE Returned(ReviewReport(texts, clock,
                               [i \in 1..Len(singles) |-> singles[i].value],
                               Counter([i \in 1..Len(singles) |-> singles[i].value.sentiment]),
                               aggregate([i \in 1..Len(texts) |->
                                             extract(an.pipeline, texts[i])])))

\* analyze_batch(texts)
analyze_batch(an, texts, clock) ==
    BatchOutcome(an, texts, clock,
                 [i \in 1..Len(texts) |-> analyze_single(an, texts[i])])

\* The review texts: one about the delivery, one with a sentence about the
\* delivery and one about the price, one that mentions no aspect.
TextDelivery == <<"Versand", Blank, "schnell">>
TextDeliveryPrice == <<"Versand", Stop, Blank, "teuer">>
TextPlain == <<"gut">>
ReviewBodies == {TextDelivery, TextDeliveryPrice, TextPlain}

\* What the pipeline may answer for each of the texts it is called with.
PipelineAnswers(cleaned) ==
    CASE cleaned = TextDelivery ->
            {[label |-> POSITIVE, score |-> 900], [label |-> NEGATIVE, score |-> 900],
             PipelineError}
      [] cleaned = <<"Versand">> ->
            {[label |-> POSITIVE, score |-> 600], [label |-> NEGATIVE, score |-> 900]}
      [] cleaned = <<"teuer">> ->
            {[label |-> NEGATIVE, score |-> 900]}
      [] cleaned = TextDeliveryPrice ->
            {[label |-> NEGATIVE, score |-> 900], [label |-> NEUTRAL, score |-> 400]}
      [] OTHER ->
            {[label |-> POSITIVE, score |-> 900], [label |-> NEUTRAL, score |-> 400],
             PipelineError}

ReviewPipelines ==
    LET called == UNION {AnalysedTexts(text) : text \in ReviewBodies}
    IN  {pipeline \in [called -> UNION {PipelineAnswers(cleaned) : cleaned \in called}] :
            \A cleaned \in called : pipeline[cleaned] \in PipelineAnswers(cleaned)}

\* The analyzers: with or without translation, the sentiment model loaded
\* (with one of the pipelines) or impossible to load (no pipeline).
Collaborators ==
    {[model_available |-> TRUE, pipeline |-> pipeline] : pipeline \in ReviewPipelines}
        \cup {[model_available |-> FALSE, pipeline |-> <<>>]}

Analyzers ==
    {[translate |-> setting[1], translator |-> setting[2],
      model_available |-> c.model_available, pipeline |-> c.pipeline] :
        setting \in {<<FALSE, "none">>, <<TRUE, "ok">>, <<TRUE, "error">>},
        c \in Collaborators}

ReviewInit ==
    /\ analyzer = None
    /\ lastCall = None
    /\ absaCall = [text |-> <<>>, pipeline |-> <<>>, result |-> None]
    /\ RiskIdle
    /\ EvalIdle
    /\ BatchIdle
    /\ RankIdle
    /\ ContentIdle
    /\ ImportIdle

\* ReviewAnalyzer(translate), with the collaborators it will build
ReviewAnalyzer_init(an) ==
    /\ analyzer = None
    /\ analyzer' = Some(an)
    /\ UNCHANGED <<absaCall, lastCall, riskVars, evalVars, batchVars, rankVars, contentVars, importVars>>

\* analyzer.analyze_single(text)
ReviewAnalyzer_analyze_single(text) ==
    /\ analyzer # None
    /\ lastCall = None
    /\ lastCall' = Some([op |-> "analyze_single", texts |-> <<text>>,
                         outcome |-> analyze_single(analyzer[1], text)])
    /\ UNCHANGED <<absaCall, analyzer, riskVars, evalVars, batchVars, rankVars, contentVars, importVars>>

\* analyzer.analyze_batch(texts)
ReviewAnalyzer_analyze_batch(texts) ==
    /\ analyzer # None
    /\ lastCall = None
    /\ lastCall' = Some([op |-> "analyze_batch", texts |-> texts,
                         outcome |-> analyze_batch(analyzer[1], texts, now)])
    /\ UNCHANGED <<absaCall, analyzer, riskVars, evalVars, batchVars, rankVars, contentVars, importVars>>

ReviewNext ==
    \/ \E an \in Analyzers : ReviewAnalyzer_init(an)
    \/ \E text \in ReviewBodies : ReviewAnalyzer_analyze_single(text)
    \/ \E texts \in SeqsUpTo(ReviewBodies, MaxBatch) : ReviewAnalyzer_analyze_batch(texts)

ReviewSpec == ReviewInit /\ [][ReviewNext]_vars

(***************************************************************************)
(* Claims about ReviewAnalyzer (ReviewSpec).                               *)
(***************************************************************************)
\* The text the sentiment pipeline is called with for a review text.
Cleaned(text) == normalize_german_text(clean_review_text(text))

\* The analyzer whose pipeline gives another answer for one text.
WithAnswer(an, cleaned, answer) ==
    [an EXCEPT !.pipeline = [@ EXCEPT ![cleaned] = answer]]

\* The last call was analyze_batch / analyze_single.
BatchCalled == lastCall # None /\ lastCall[1].op = "analyze_batch"
SingleCalled == lastCall # None /\ lastCall[1].op = "analyze_single"

\* The last call was analyze_batch and it returned a report.
BatchReported == BatchCalled /\ lastCall[1].outcome.raised = ""

\* C16: when the sentiment pipeline fails on a text of a batch,
\* analyze_batch still returns a report with a result for every text, and
\* the result of the failed text differs from every result the text has
\* when the pipeline answers.
C16_FailedItemIsMarked ==
    BatchCalled =>
        \A i \in 1..Len(lastCall[1].texts) :
            LET an == analyzer[1]
                text == lastCall[1].texts[i]
            IN  (an.model_available /\ an.pipeline[Cleaned(text)] = PipelineError) =>
                    /\ lastCall[1].outcome.raised = ""
                    /\ Len(lastCall[1].outcome.value.reviews) = Len(lastCall[1].texts)
                    /\ \A answer \in PipelineAnswers(Cleaned(text)) \ {PipelineError} :
                           lastCall[1].outcome.value.reviews[i]
                               # analyze_single(WithAnswer(an, Cleaned(text), answer),
                                                text).value

\* C17: analyze_single with translation enabled and a translator that
\* raises returns a ReviewInsight all the same; its sentiment, score,
\* aspects, keywords and sentiment words are those of the analysis, and its
\* translated_text is the failure mark, which is not the empty text of an
\* analyzer without translation.
C17_TranslationFailureIsMarked ==
    (/\ SingleCalled
     /\ analyzer[1].translate
     /\ analyzer[1].translator = "error"
     /\ analyzer[1].model_available) =>
        LET an == analyzer[1]
            text == lastCall[1].texts[1]
            outcome == lastCall[1].outcome
        IN  /\ outcome.raised = ""
            /\ outcome.value.sentiment = analyze(an.pipeline, text).label
            /\ outcome.value.sentiment_score = analyze(an.pipeline, text).score
            /\ outcome.value.aspects = extract(an.pipeline, text).summary
            /\ outcome.value.keywords = extract_keywords(text)
            /\ outcome.value.sentiment_words = detect_sentiment_words(text)
            /\ outcome.value.translated_text = TranslationFailed
            /\ outcome.value.translated_text
                   # analyze_single([an EXCEPT !.translate = FALSE], text).value.translated_text

\* The translator raised on a review about the delivery: the insight holds
\* the positive sentiment, the delivery score, the keywords and the mark.
C17_Witness ==
    /\ SingleCalled
    /\ analyzer[1].translate
    /\ analyzer[1].translator = "error"
    /\ lastCall[1].texts = <<TextDelivery>>
    /\ lastCall[1].outcome.raised = ""
    /\ lastCall[1].outcome.value.sentiment = POSITIVE
    /\ DOMAIN lastCall[1].outcome.value.aspects = {"delivery"}
    /\ lastCall[1].outcome.value.keywords = <<"versand", "schnell">>
    /\ lastCall[1].outcome.value.translated_text = TranslationFailed

\* The results analyze_batch hands to aggregate: one per text of the batch.
AllAbsa == [i \in 1..Len(lastCall[1].texts) |-> extract(analyzer[1].pipeline, lastCall[1].texts[i])]

\* The scores the results hold for an aspect, one for each text that
\* mentions it.
ScoresOf(results, texts, aspect) ==
    LET mentioning == SelectSeq([i \in 1..Len(texts) |-> i],
                                LAMBDA i : Mentions(texts[i], aspect))
    IN  [k \in 1..Len(mentioning) |->
            (CHOOSE asp \in {results[mentioning[k]].aspects[j] :
                                j \in 1..Len(results[mentioning[k]].aspects)} :
                 asp.aspect_de = aspect).score]

\* value / unit is num / den rounded to the nearest multiple of 1 / unit.
IsRounded(value, unit, num, den) ==
    LET diff == value * den - unit * num
    IN  2 * (IF diff < 0 THEN -diff ELSE diff) <= den

\* C18: the dimension scores of a report hold one entry for each aspect
\* label that a text of the batch mentions and none for any other label;
\* the entry's count is the number of texts mentioning the aspect, its
\* avg_score the mean of their scores rounded to three decimals, its
\* positive_rate the percentage (to one decimal) of them with a score
\* strictly above 0.6; the entries are in the order of descending count.
C18_Aggregate ==
    BatchReported =>
        \A results \in {AllAbsa} :
            LET texts == lastCall[1].texts
                dims == lastCall[1].outcome.value.dimension_scores
            IN  /\ \A aspect \in AspectSet :
                       \A scores \in {ScoresOf(results, texts, aspect)} :
                           LET total == SumOf(scores)
                               positive == Cardinality({k \in 1..Len(scores) :
                                                           Less(Ratio(6, 10), scores[k])})
                               entries == {d \in 1..Len(dims) :
                                              dims[d].dim = ASPECT_CONFIG[aspect].zh}
                           IN  IF scores = <<>> THEN entries = {}
                               ELSE /\ Cardinality(entries) = 1
                                    /\ \A d \in entries :
                                           /\ dims[d].count = Len(scores)
                                           /\ IsRounded(dims[d].avg_score, 1000,
                                                        total[1], total[2] * Len(scores))
                                           /\ IsRounded(dims[d].positive_rate, 10,
                                                        100 * positive, Len(scores))
                /\ \A d \in 1..Len(dims) :
                       \E aspect \in AspectSet : dims[d].dim = ASPECT_CONFIG[aspect].zh
                /\ \A d \in 1..Len(dims) - 1 : dims[d].count >= dims[d + 1].count

\* Five texts, three of them mentioning the price and all five the
\* delivery, with delivery scores of 0.9, 0.9, 0.6, 0.6 and 0.6: the delivery
\* comes first with a mean of 0.72 and a positive rate of 40%, the price
\* second with a mean of 0.1 and a positive rate of 0%.
C18_Witness ==
    /\ BatchReported
    /\ Len(lastCall[1].texts) = 5
    /\ lastCall[1].outcome.value.dimension_scores =
           <<[dim |-> "delivery", avg_score |-> 720, count |-> 5, positive_rate |-> 400],
             [dim |-> "price", avg_score |-> 100, count |-> 3, positive_rate |-> 0]>>

\* The insights of a report on a dimension, by kind.
InsightsOn(rep, dim, kind) ==
    {k \in 1..Len(rep.key_insights) :
        rep.key_insights[k].dim = dim /\ rep.key_insights[k].kind = kind}

\* The insights of a report on the overall sentiment.
OverallInsights(rep) ==
    {k \in 1..Len(rep.key_insights) :
        rep.key_insights[k].kind \in {"positive_summary", "concern"}}

\* C19: a dimension counted less than three times has no insight, whatever
\* its mean; a dimension counted three times or more has a pain-point insight
\* iff its mean (the avg_score of the dimension scores) is below 0.4, a
\* selling-point insight iff it is above 0.7, never both and never twice; and
\* every pain-point or selling-point insight is on a dimension of the report.
C19_AspectInsights ==
    BatchReported =>
        LET rep == lastCall[1].outcome.value
            dims == rep.dimension_scores
        IN  /\ \A d \in 1..Len(dims) :
                   LET pain == InsightsOn(rep, dims[d].dim, "pain_point")
                       selling == InsightsOn(rep, dims[d].dim, "selling_point")
                   IN  /\ dims[d].count < 3 => pain = {} /\ selling = {}
                       /\ dims[d].count >= 3 =>
                              /\ pain # {} <=> dims[d].avg_score < 400
                              /\ selling # {} <=> dims[d].avg_score > 700
                              /\ Cardinality(pain) + Cardinality(selling) <= 1
            /\ \A k \in 1..Len(rep.key_insights) :
                   rep.key_insights[k].kind \in {"pain_point", "selling_point"} =>
                       \E d \in 1..Len(dims) : dims[d].dim = rep.key_insights[k].dim

\* The delivery is counted four times with a mean of 0.75 and the price
\* twice with a mean of 0.1: the only aspect insight is the selling point
\* on the delivery.
C19_Witness ==
    /\ BatchReported
    /\ \E d \in 1..Len(lastCall[1].outcome.value.dimension_scores) :
           lastCall[1].outcome.value.dimension_scores[d] =
               [dim |-> "price", avg_score |-> 100, count |-> 2, positive_rate |-> 0]
    /\ \E d \in 1..Len(lastCall[1].outcome.value.dimension_scores) :
           /\ lastCall[1].outcome.value.dimension_scores[d].dim = "delivery"
           /\ lastCall[1].outcome.value.dimension_scores[d].count = 4
           /\ lastCall[1].outcome.value.dimension_scores[d].avg_score = 750
    /\ InsightsOn(lastCall[1].outcome.value, "price", "pain_point") = {}
    /\ Cardinality(InsightsOn(lastCall[1].outcome.value, "delivery", "selling_point")) = 1

\* The number of reviews of a report with a sentiment.
Labelled(rep, label) ==
    Cardinality({i \in 1..Len(rep.reviews) : rep.reviews[i].sentiment = label})

\* C20: a report has at most one insight on the overall sentiment and it
\* is the first insight; it is the positive summary iff more than 60% of the
\* reviews are positive, the concern iff that is not so and more than 40% of
\* the reviews are negative.
C20_OverallInsight ==
    BatchReported =>
        LET rep == lastCall[1].outcome.value
            total == Len(lastCall[1].texts)
            positive == Labelled(rep, POSITIVE)
            negative == Labelled(rep, NEGATIVE)
            summaries == InsightsOn(rep, "", "positive_summary")
            concerns == InsightsOn(rep, "", "concern")
        IN  /\ Cardinality(OverallInsights(rep)) <= 1
            /\ OverallInsights(rep) \subseteq {1}
            /\ OverallInsights(rep) = summaries \cup concerns
            /\ summaries # {} <=> positive * 100 > 60 * total
            /\ concerns # {} <=> (~(positive * 100 > 60 * total) /\ negative * 100 > 40 * total)

\* Exactly 60% of five reviews are positive and exactly 40% negative: the
\* report has no insight on the overall sentiment, and an aspect insight is
\* its first.
C20_Witness ==
    /\ BatchReported
    /\ Len(lastCall[1].texts) = 5
    /\ Labelled(lastCall[1].outcome.value, POSITIVE) = 3
    /\ Labelled(lastCall[1].outcome.value, NEGATIVE) = 2
    /\ OverallInsights(lastCall[1].outcome.value) = {}
    /\ lastCall[1].outcome.value.key_insights # <<>>

\* C29: analyze_batch returns a report for every list of texts (the
\* sentiment model being available or the list empty); for the empty list
\* the report has total_reviews = 0, an empty sentiment distribution and no
\* insight.
C29_BatchAlwaysReports ==
    (BatchCalled /\ (analyzer[1].model_available \/ lastCall[1].texts = <<>>)) =>
        /\ lastCall[1].outcome.raised = ""
        /\ lastCall[1].texts = <<>> =>
               /\ lastCall[1].outcome.value.total_reviews = 0
               /\ lastCall[1].outcome.value.sentiment_distribution = <<>>
               /\ lastCall[1].outcome.value.key_insights = <<>>

(***************************************************************************)
(* Claims about the components of the sub-scores (EvalSpec).               *)
(***************************************************************************)
\* The engagement component of a result: what the authenticity score holds
\* beyond the follower/following and comment/like components.
EngagementComponent(result) ==
    result.authenticity_score
        - Points(Get(result.authenticity_details, "ff_score", 15))
        - Points(Get(result.authenticity_details, "cl_score", 10))

\* The band of C25, in percent times ten.
ClaimedBand(p) ==
    CASE p.platform = "tiktok" -> <<30, 120>>
      [] p.platform = "youtube" -> <<20, 80>>
      [] p.platform = "instagram" /\ p.followers > 1000000 -> <<5, 30>>
      [] p.platform = "instagram" /\ p.followers > 100000 /\ p.followers <= 1000000 -> <<10, 50>>
      [] OTHER -> <<20, 80>>

DatesPortion(result) ==
    result.activity_score - Points(Get(result.activity_details, "content_score", 0))

\* C26: with post dates the frequency component is decided by the number
\* of posts at most 30 whole days old and the band of the platform: 40
\* within the band, 35 above it, 25 from half the band minimum, 10 below;
\* without post dates there is neither a frequency nor a recency component
\* and the dates portion is 20.
C26_FrequencyComponent ==
    \A e \in Evaluated :
        LET dates == profile.recent_post_dates
            recent == Cardinality({i \in 1..Len(dates) :
                                      e.at - dates[i] < 31 * TicksPerDay})
            low == IF profile.platform = "youtube" THEN 4 ELSE 8
            high == IF profile.platform = "youtube" THEN 8 ELSE 15
            details == e.result.activity_details
        IN  IF dates # <<>>
            THEN /\ "frequency_score" \in DOMAIN details
                 /\ "recency_score" \in DOMAIN details
                 /\ details["frequency_score"] =
                        (IF low <= recent /\ recent <= high THEN 40
                         ELSE IF recent > high THEN 35
                         ELSE IF 2 * recent >= low THEN 25
                         ELSE 10)
                 /\ DatesPortion(e.result)
                        = Points(details["frequency_score"] + details["recency_score"])
            ELSE /\ "frequency_score" \notin DOMAIN details
                 /\ "recency_score" \notin DOMAIN details
                 /\ DatesPortion(e.result) = Points(20)

\* A YouTube profile with two posts in the last 30 days, half the band
\* minimum of four: the frequency component is 25.
C26_Witness ==
    \E e \in Evaluated :
        /\ profile.platform = "youtube"
        /\ Get(e.result.activity_details, "posts_last_30d", 0) = 2
        /\ Get(e.result.activity_details, "frequency_score", 0) = 25

\* The niche component of a result: what the relevance score holds beyond
\* the value-keyword and the language components.
NicheComponent(result) ==
    result.relevance_score
        - Min(Points(40), GermanScoreSum(ValueCategories,
                                         result.german_market_fit.keywords_found))
        - Points(CASE result.relevance_details["language"] = "mostly_german" -> 20
                   [] result.relevance_details["language"] = "some_german" -> 15
                   [] OTHER -> 10)

\* The niche keywords (of both lists) that occur in the text of a profile.
NicheHits(p, niche) ==
    Len(SelectSeq(NICHE_KEYWORDS[niche].de \o NICHE_KEYWORDS[niche].en,
                  LAMBDA kw : KeywordIn(kw, AllText(p))))

\* C27: the niche component is 40, 30, 20 or 5 for at least 5, at least 3,
\* at least 1 or no hit when the target niche is a known one, and 20 when
\* no target niche is configured or the configured one is not known.
C27_NicheComponent ==
    \A e \in Evaluated :
        LET niche == evaluator[1].target_niche
        IN  NicheComponent(e.result) =
                Points(IF niche # None /\ niche[1] \in {"fashion", "tech", "beauty",
                                                         "fitness", "food", "home"}
                       THEN LET hits == NicheHits(profile, niche[1])
                            IN  IF hits >= 5 THEN 40
                                ELSE IF hits >= 3 THEN 30
                                ELSE IF hits >= 1 THEN 20
                                ELSE 5
                       ELSE 20)

\* An evaluator constructed with the unknown niche "autos" has evaluated a
\* profile full of fashion keywords: the niche component is 20.
C27_Witness ==
    \E e \in Evaluated :
        /\ evaluator[1].target_niche = Some("autos")
        /\ NicheHits(profile, "fashion") >= 5
        /\ NicheComponent(e.result) = Points(20)


(***************************************************************************)
(* Batch evaluation and ranking (evaluator.py, evaluate_batch and          *)
(* rank_influencers).                                                      *)
(***************************************************************************)
MaxCandidates == 3   \* profiles in a list given to evaluate_batch

\* [self.evaluate(p) for p in profiles]: item i is evaluated at instants[i]
evaluate_batch(ev, profiles, instants) ==
    [i \in 1..Len(profiles) |-> evaluate(ev, profiles[i], instants[i])]

\* The results ordered by total_score, largest first, results of equal score
\* in the order of the list.
RECURSIVE SortByTotalDesc(_)
SortByTotalDesc(results) ==
    IF results = <<>> THEN <<>>
    ELSE LET sorted == SortByTotalDesc(SubSeq(results, 1, Len(results) - 1))
             item == results[Len(results)]
             k == Cardinality({i \in 1..Len(sorted) :
                                  sorted[i].total_score >= item.total_score})
         IN  SubSeq(sorted, 1, k) \o <<item>> \o SubSeq(sorted, k + 1, Len(sorted))

\* A ranking that keeps one result of each value.
rank_influencers_Distinct(results) ==
    SortByTotalDesc(SelectSeq([i \in 1..Len(results) |->
                                  IF \E j \in 1..(i - 1) : results[j] = results[i]
                                  THEN None ELSE Some(results[i])],
                              LAMBDA r : r # None))

\* sorted(results, key=lambda x: x.total_score, reverse=True)
rank_influencers(results) == SortByTotalDesc(results)

Named(p, username) == [p EXCEPT !.username = username]

\* The profiles of the lists: the strong profile under two names (equal
\* scores), the weak profile, and a profile whose last post is 14 days old at
\* the start of the run (its recency score drops a day later).
Candidates ==
    {Named(MakeProfile("instagram", 50000, 500, 200, 2500, 150, TextStrong,
                       PostDates(10, 0)), "anna"),
     Named(MakeProfile("instagram", 50000, 500, 200, 2500, 150, TextStrong,
                       PostDates(10, 0)), "ben"),
     Named(MakeProfile("instagram", 100000, 9500, 0, 150, 0, TextEmpty,
                       PostDates(1, 45 * TicksPerDay)), "cara"),
     Named(MakeProfile("tiktok", 50000, 500, 200, 2500, 150, TextEnglish,
                       PostDates(2, 14 * TicksPerDay)), "dan")}

RankInit ==
    /\ now = 0
    /\ profile = <<>>
    /\ evaluator = None
    /\ evaluations = <<>>
    /\ candidates \in SeqsUpTo(Candidates, MaxCandidates)
    /\ batchResults = None
    /\ ranking = None
    /\ RiskIdle
    /\ BatchIdle
    /\ NlpIdle
    /\ ContentIdle
    /\ ImportIdle

\* evaluator.evaluate_batch(candidates): the items are evaluated one after
\* the other, and the clock may pass a tick between two of them.
InfluencerEvaluator_evaluate_batch(first_part) ==
    /\ evaluator # None
    /\ first_part \in 0..Len(candidates)
    /\ first_part < Len(candidates) => now < MaxTicks
    /\ LET instants == [i \in 1..Len(candidates) |->
                           IF i <= first_part THEN now ELSE now + 1]
       IN  /\ batchResults' = Some([profiles |-> candidates, instants |-> instants,
                                    returned |-> evaluate_batch(evaluator[1], candidates,
                                                                instants)])
           /\ now' = IF first_part < Len(candidates) THEN now + 1 ELSE now
    /\ UNCHANGED <<profile, evaluator, evaluations, candidates, ranking,
                   riskVars, batchVars, nlpVars, contentVars, importVars>>

\* evaluator.rank_influencers(results), on the results of the last batch
InfluencerEvaluator_rank_influencers ==
    /\ evaluator # None
    /\ batchResults # None
    /\ ranking' = Some([results |-> batchResults[1].returned,
                        returned |-> rank_influencers(batchResults[1].returned)])
    /\ UNCHANGED <<evalVars, candidates, batchResults,
                   riskVars, batchVars, nlpVars, contentVars, importVars>>

RankNext ==
    \/ \E arguments \in EvaluatorArguments :
           InfluencerEvaluator_init(arguments[1], arguments[2])
    \/ \E first_part \in 0..MaxCandidates : InfluencerEvaluator_evaluate_batch(first_part)
    \/ InfluencerEvaluator_rank_influencers
    \/ Tick

RankSpec == RankInit /\ [][RankNext]_vars

(***************************************************************************)
(* Claims about batch evaluation and ranking (RankSpec).                   *)
(***************************************************************************)
Occurrences(list, item) == Cardinality({i \in 1..Len(list) : list[i] = item})

IsPermutation(out, in) ==
    /\ Len(out) = Len(in)
    /\ \A i \in 1..Len(in) : Occurrences(out, in[i]) = Occurrences(in, in[i])

\* C21: rank_influencers returns a permutation of its argument (nothing
\* dropped, nothing duplicated) in which no result is followed by one of a
\* larger total_score; evaluate_batch returns one result per profile, in the
\* order of the profiles, each the result of evaluate on that profile alone
\* at the instant the item was evaluated, and leaves the evaluator as it was.
C21_BatchAndRanking ==
    /\ ranking # None =>
           /\ IsPermutation(ranking[1].returned, ranking[1].results)
           /\ \A i, j \in 1..Len(ranking[1].returned) :
                  i < j => ranking[1].returned[i].total_score
                               >= ranking[1].returned[j].total_score
    /\ batchResults # None =>
           /\ Len(batchResults[1].returned) = Len(batchResults[1].profiles)
           /\ \A i \in 1..Len(batchResults[1].profiles) :
                  /\ batchResults[1].returned[i].username
                         = batchResults[1].profiles[i].username
                  /\ batchResults[1].returned[i]
                         = evaluate(evaluator[1], batchResults[1].profiles[i],
                                    batchResults[1].instants[i])

\* Three results are ranked, two of them equal and the third, given first,
\* of a smaller total: the ranking moves it behind the other two.
C21_Witness ==
    /\ ranking # None
    /\ Len(ranking[1].results) = 3
    /\ ranking[1].results[2] = ranking[1].results[3]
    /\ ranking[1].results[1].total_score < ranking[1].results[2].total_score
    /\ ranking[1].returned[3] = ranking[1].results[1]


(***************************************************************************)
(* The outreach generator (content/outreach_generator.py).  A text is the  *)
(* sequence of its pieces; a template has its placeholders as pieces of    *)
(* their own.  The pictographs of the friendly phrases are left out.       *)
(***************************************************************************)
FORMAL == "formal"
FRIENDLY == "friendly"
\* The members of the enumeration, in the order of their definition.
ToneMode == <<FORMAL, FRIENDLY>>
ToneModes == {ToneMode[i] : i \in 1..Len(ToneMode)}

GERMAN_BUSINESS_PHRASES ==
    [greetings |->
        [formal |-> << <<"Sehr geehrte/r ", "{name}">>, <<"Guten Tag ", "{name}">> >>,
         friendly |-> << <<"Hallo ", "{name}">>, <<"Hi ", "{name}">>,
                         <<"Liebe/r ", "{name}">> >>],
     opening_hooks |->
        [formal |->
            << <<"ich bin auf Ihr Profil aufmerksam geworden und war beeindruckt von Ihrer Arbeit im Bereich ",
                 "{niche}", ".">>,
               <<"Ihr Content zum Thema ", "{topic}", " hat unser Team sehr angesprochen.">>,
               <<"als Unternehmen, das Wert auf Qualität und Authentizität legt, schätzen wir Ihre Arbeit sehr.">> >>,
         friendly |->
            << <<"ich verfolge deinen Content schon eine Weile und bin total begeistert!">>,
               <<"dein letzter Post über ", "{topic}", " war super inspirierend!">>,
               <<"ich liebe, wie du ", "{niche}", " Themen rüberbringst - echt authentisch!">> >>],
     value_proposition |->
        [formal |->
            << <<"Wir bei ", "{brand}", " entwickeln ", "{product}",
                 ", das perfekt zu Ihrer Zielgruppe passt.">>,
               <<"Unser Produkt ", "{product}", " zeichnet sich durch ", "{highlight}", " aus.">>,
               <<"Wir sind überzeugt, dass eine Zusammenarbeit für beide Seiten von großem Wert wäre.">> >>,
         friendly |->
            << <<"Wir haben da was, das mega gut zu deinem Content passen würde!">>,
               <<"Unser ", "{product}", " ist genau das Richtige für deine Community.">>,
               <<"Ich glaube, ", "{product}", " würde deinen Followern richtig gut gefallen!">> >>],
     collaboration_ask |->
        [formal |->
            << <<"Wir würden uns freuen, Ihnen ", "{product}",
                 " für einen ehrlichen Test zur Verfügung zu stellen.">>,
               <<"Hätten Sie Interesse an einer ", "{collab_type}", "?">>,
               <<"Gerne würden wir die Möglichkeiten einer Zusammenarbeit mit Ihnen besprechen.">> >>,
         friendly |->
            << <<"Hättest du Lust, ", "{product}", " mal auszuprobieren?">>,
               <<"Was hältst du von einer Kooperation?">>,
               <<"Ich würde dir super gerne ein Paket schicken!">> >>],
     closing |->
        [formal |->
            << <<"Über eine Rückmeldung würde ich mich sehr freuen.">>,
               <<"Für Rückfragen stehe ich Ihnen jederzeit zur Verfügung.">>,
               <<"Ich freue mich auf Ihre Antwort.">> >>,
         friendly |->
            << <<"Schreib mir einfach, wenn du Interesse hast!">>,
               <<"Lass mich wissen, was du denkst!">>,
               <<"Freu mich auf deine Antwort!">> >>],
     sign_off |->
        [formal |-> << <<"Mit freundlichen Grüßen">>, <<"Mit besten Grüßen">>,
                       <<"Herzliche Grüße">> >>,
         friendly |-> << <<"Liebe Grüße">>, <<"Viele Grüße">>, <<"Bis bald">> >>]]

GDPR_COMPLIANCE ==
    [opt_out_notice |->
        [formal |-> <<"\n\nHinweis: Falls Sie keine weiteren Nachrichten von uns erhalten möchten, teilen Sie uns dies bitte mit.">>,
         friendly |-> <<"\n\nPS: Falls du keine weiteren Nachrichten möchtest, sag einfach Bescheid!">>],
     data_protection |->
        [formal |-> <<"\n\nDatenschutz: Ihre Kontaktdaten wurden ausschließlich für diese Anfrage verwendet und werden nicht an Dritte weitergegeben.">>,
         friendly |-> <<"\n\nDatenschutz: Deine Daten sind bei uns sicher und werden nicht weitergegeben.">>]]

SUBJECT_TEMPLATES ==
    [formal |-> << <<"Kooperationsanfrage: ", "{brand}", " x ", "{influencer}">>,
                   <<"Partnerschaftsmöglichkeit mit ", "{brand}">>,
                   <<"{brand}", " - Interesse an einer Zusammenarbeit">> >>,
     friendly |-> << <<"Hey ", "{influencer}", "! Kooperation mit ", "{brand}", "?">>,
                     <<"{brand}", " ", "{influencer}", " - Let's collaborate!">>,
                     <<"Coole Idee für dich von ", "{brand}", "!">> >>]

NoteOptOut == "opt-out included (UWG 7)"
NoteDataProtection == "data protection statement (GDPR Art.13)"

\* text.replace("{key}", value)
Replace(text, key, value) ==
    [i \in 1..Len(text) |-> IF text[i] = "{" \o key \o "}" THEN value ELSE text[i]]

\* The replacements of the keyword arguments, one after the other.
RECURSIVE ReplaceAll(_, _)
ReplaceAll(text, kwargs) ==
    IF kwargs = <<>> THEN text
    ELSE ReplaceAll(Replace(text, kwargs[1][1], kwargs[1][2]), Tail(kwargs))

\* x or default, of a string
Or(x, default) == IF x = "" THEN default ELSE x

\* The random choices of one generate call: for the subject and for every
\* category of phrase, the index random.choice draws.
Drawn == {"subject", "greetings", "opening_hooks", "value_proposition",
          "collaboration_ask", "closing", "sign_off"}

\* What random.choice draws under a tone: an index of every list.  The
\* draws of the model: any index for the greeting, one for the subject, the
\* closing and the sign-off, and one for the three phrases in between.
Draw(greeting, outer, inner) ==
    [drawn \in Drawn |-> IF drawn = "greetings" THEN greeting
                         ELSE IF drawn \in {"subject", "closing", "sign_off"} THEN outer
                         ELSE inner]

Draws(tone) ==
    {Draw(greeting, outer, inner) :
        greeting \in 1..Len(GERMAN_BUSINESS_PHRASES.greetings[tone]),
        outer \in 1..Len(SUBJECT_TEMPLATES[tone]),
        inner \in 1..Len(GERMAN_BUSINESS_PHRASES.opening_hooks[tone])}

\* self._get_phrase(category, **kwargs), random.choice drawing draw[category]
_get_phrase(gen, category, kwargs, draw) ==
    LET phrases == GERMAN_BUSINESS_PHRASES[category][gen.tone]
    IN  IF phrases = <<>> THEN <<>> ELSE ReplaceAll(phrases[draw[category]], kwargs)

_build_subject(gen, ctx, draw) ==
    Replace(Replace(SUBJECT_TEMPLATES[gen.tone][draw["subject"]],
                    "brand", Or(ctx.brand_name, "Uns")),
            "influencer", ctx.influencer_name)

_build_body(gen, ctx, draw) ==
    LET topic == IF ctx.recent_content_topics # <<>> THEN ctx.recent_content_topics[1]
                 ELSE ctx.niche
        highlight == IF ctx.product_highlights # <<>> THEN ctx.product_highlights[1]
                     ELSE "höchste Qualität"
    IN  _get_phrase(gen, "greetings", << <<"name", ctx.influencer_name>> >>, draw)
        \o <<",\n">>
        \o _get_phrase(gen, "opening_hooks",
                       << <<"niche", ctx.niche>>, <<"topic", topic>> >>, draw)
        \o <<"\n\n">>
        \o _get_phrase(gen, "value_proposition",
                       << <<"brand", ctx.brand_name>>, <<"product", ctx.product_name>>,
                          <<"highlight", highlight>> >>, draw)
        \o <<"\n\n">>
        \o _get_phrase(gen, "collaboration_ask",
                       << <<"product", ctx.product_name>>,
                          <<"collab_type", Or(ctx.collaboration_type, "Zusammenarbeit")>> >>,
                       draw)
        \o <<"\n\n">>
        \o _get_phrase(gen, "closing", <<>>, draw)
        \o <<"\n\n">>
        \o _get_phrase(gen, "sign_off", <<>>, draw)
        \o (IF ctx.sender_name # "" THEN <<"\n", ctx.sender_name>> ELSE <<>>)
        \o (IF ctx.sender_title # "" THEN <<"\n", ctx.sender_title>> ELSE <<>>)
        \o (IF ctx.company_name # "" THEN <<"\n", ctx.company_name>> ELSE <<>>)

\* The notices of the formal tone, whatever the tone of the generator.
_add_gdpr_compliance_FormalOnly(gen, body) ==
    [body |-> body \o GDPR_COMPLIANCE.opt_out_notice[FORMAL]
                   \o GDPR_COMPLIANCE.data_protection[FORMAL],
     compliance_notes |-> <<NoteOptOut, NoteDataProtection>>]

_add_gdpr_compliance(gen, body) ==
    [body |-> body \o GDPR_COMPLIANCE.opt_out_notice[gen.tone]
                   \o GDPR_COMPLIANCE.data_protection[gen.tone],
     compliance_notes |-> <<NoteOptOut, NoteDataProtection>>]

\* generator.generate(context), random.choice drawing draw
generate(gen, ctx, draw) ==
    LET body == _build_body(gen, ctx, draw)
        gdpr == IF gen.include_gdpr THEN _add_gdpr_compliance(gen, body)
                ELSE [body |-> body, compliance_notes |-> <<>>]
    IN  [subject |-> _build_subject(gen, ctx, draw),
         body |-> gdpr.body,
         tone_mode |-> gen.tone,
         gdpr_compliant |-> gen.include_gdpr,
         compliance_notes |-> gdpr.compliance_notes]

\* A preview that leaves the generator with the tone of the last outreach.
preview_both_tones_LastTone(gen, ctx, draws) ==
    [generator |-> [gen EXCEPT !.tone = ToneMode[Len(ToneMode)]],
     results |-> [tone \in ToneModes |->
                     generate([gen EXCEPT !.tone = tone], ctx,
                                                       draws[tone])]]

\* generator.preview_both_tones(context): the generator afterwards, and the
\* dictionary returned; draws[tone] is what random.choice draws for that tone.
preview_both_tones(gen, ctx, draws) ==
    [generator |-> [gen EXCEPT !.tone = gen.tone],
     results |-> [tone \in ToneModes |->
                     generate([gen EXCEPT !.tone = tone], ctx,
                                                       draws[tone])]]


MakeContext(influencer_name, niche, topics, brand_name, product_name, highlights, collaboration_type, sender_name, sender_title, company_name) ==
    [influencer_name |-> influencer_name, niche |-> niche,
     recent_content_topics |-> topics, brand_name |-> brand_name,
     product_name |-> product_name, product_highlights |-> highlights,
     collaboration_type |-> collaboration_type, sender_name |-> sender_name,
     sender_title |-> sender_title, company_name |-> company_name]

\* The contexts: the one of test_formal_mode; one with nothing but the
\* influencer's name; one with topics, highlights and a collaboration type
\* but no sender.
OutreachContexts ==
    {MakeContext("Frau Schmidt", "fashion", <<>>, "EcoStyle", "nachhaltige Handtasche",
                 <<>>, "", "Li Wei", "Partnership Manager", "EcoStyle GmbH"),
     MakeContext("Anna", "", <<>>, "", "", <<>>, "", "", "", ""),
     MakeContext("Anna", "fashion", <<"Nachhaltigkeit", "Mode">>, "EcoStyle",
                 "nachhaltige Handtasche", <<"Bio-Baumwolle">>, "Produkttest", "", "", "")}

\* The draws of a preview: those with one index for the subject and every
\* phrase but the greeting.
PreviewDraws(tone) == {draw \in Draws(tone) : draw["opening_hooks"] = draw["subject"]}

OutreachInit ==
    /\ generator = None
    /\ context \in OutreachContexts
    /\ toneSet = None
    /\ outreach = None
    /\ mail = <<>>
    /\ privacy = None
    /\ apologyContext = <<>>
    /\ apology = None
    /\ RiskIdle
    /\ EvalIdle
    /\ BatchIdle
    /\ NlpIdle
    /\ RankIdle
    /\ ImportIdle

\* OutreachGenerator(tone, include_gdpr)
OutreachGenerator_init(tone, include_gdpr) ==
    /\ generator = None
    /\ generator' = Some([tone |-> tone, include_gdpr |-> include_gdpr])
    /\ toneSet' = Some(tone)
    /\ UNCHANGED <<context, outreach, mail, privacy, apologyContext, apology,
                   riskVars, evalVars, batchVars, nlpVars, rankVars, importVars>>

\* generator.set_tone(tone)
OutreachGenerator_set_tone(tone) ==
    /\ generator # None
    /\ generator' = Some([generator[1] EXCEPT !.tone = tone])
    /\ toneSet' = Some(tone)
    /\ UNCHANGED <<context, outreach, mail, privacy, apologyContext, apology,
                   riskVars, evalVars, batchVars, nlpVars, rankVars, importVars>>

\* generator.generate(context)
OutreachGenerator_generate(draw) ==
    /\ generator # None
    /\ draw \in Draws(generator[1].tone)
    /\ outreach' = Some([op |-> "generate", generator |-> generator[1],
                         generator_after |-> generator[1],
                         returned |-> generate(generator[1], context, draw)])
    /\ UNCHANGED <<generator, context, toneSet, mail, privacy, apologyContext, apology,
                   riskVars, evalVars, batchVars, nlpVars, rankVars, importVars>>

\* generator.preview_both_tones(context)
OutreachGenerator_preview_both_tones(draws) ==
    /\ generator # None
    /\ \A tone \in ToneModes : draws[tone] \in PreviewDraws(tone)
    /\ LET preview == preview_both_tones(generator[1], context, draws)
       IN  /\ generator' = Some(preview.generator)
           /\ outreach' = Some([op |-> "preview_both_tones", generator |-> generator[1],
                                generator_after |-> preview.generator,
                                returned |-> preview.results])
    /\ UNCHANGED <<context, toneSet, mail, privacy, apologyContext, apology,
                   riskVars, evalVars, batchVars, nlpVars, rankVars, importVars>>

OutreachNext ==
    \/ \E tone \in ToneModes, include_gdpr \in BOOLEAN :
           OutreachGenerator_init(tone, include_gdpr)
    \/ \E tone \in ToneModes : OutreachGenerator_set_tone(tone)
    \/ \E draw \in Draws(FORMAL) \cup Draws(FRIENDLY) : OutreachGenerator_generate(draw)
    \/ \E formal \in PreviewDraws(FORMAL), friendly \in PreviewDraws(FRIENDLY) :
           OutreachGenerator_preview_both_tones([tone \in ToneModes |->
                                                    IF tone = FORMAL THEN formal
                                                    ELSE friendly])

OutreachSpec == OutreachInit /\ [][OutreachNext]_vars

(***************************************************************************)
(* Claims about the outreach generator (OutreachSpec).                     *)
(***************************************************************************)
\* part in text: the pieces of part, one after the other, in text
Contains(text, part) ==
    \E i \in 1..(Len(text) - Len(part) + 1) : SubSeq(text, i, i + Len(part) - 1) = part

Generated == outreach # None /\ outreach[1].op = "generate"
Previewed == outreach # None /\ outreach[1].op = "preview_both_tones"

\* C24: whatever the context and whatever random.choice draws, generate of a
\* generator with include_gdpr returns the generator's tone as tone_mode,
\* gdpr_compliant true, at least two compliance notes and a body containing
\* the opt-out notice and the data-protection statement of that tone; of a
\* generator without include_gdpr, gdpr_compliant false and no notes.
C24_GdprOutreach ==
    Generated =>
        /\ outreach[1].generator.include_gdpr =>
               /\ outreach[1].returned.tone_mode = outreach[1].generator.tone
               /\ outreach[1].returned.gdpr_compliant
               /\ Len(outreach[1].returned.compliance_notes) >= 2
               /\ Contains(outreach[1].returned.body,
                           GDPR_COMPLIANCE.opt_out_notice[outreach[1].generator.tone])
               /\ Contains(outreach[1].returned.body,
                           GDPR_COMPLIANCE.data_protection[outreach[1].generator.tone])
        /\ ~outreach[1].generator.include_gdpr =>
               /\ ~outreach[1].returned.gdpr_compliant
               /\ outreach[1].returned.compliance_notes = <<>>

\* A friendly generator with include_gdpr has generated for the bare
\* context, with the third phrase of every category.
C24_Witness ==
    /\ Generated
    /\ outreach[1].generator = [tone |-> FRIENDLY, include_gdpr |-> TRUE]
    /\ context.brand_name = ""
    /\ Contains(outreach[1].returned.body, <<"Liebe/r ", "Anna", ",\n">>)
    /\ Contains(outreach[1].returned.body, <<"Bis bald">>)
    /\ outreach[1].returned.subject = <<"Coole Idee für dich von ", "Uns", "!">>

\* C30: preview_both_tones returns one outreach under each of "formal" and
\* "friendly", each of that tone_mode, and leaves the generator's tone as it
\* was; so the generator's tone is always the one last given to the
\* constructor or to set_tone, and generate answers in it.
C30_PreviewKeepsTone ==
    /\ Previewed =>
           /\ DOMAIN outreach[1].returned = {"formal", "friendly"}
           /\ \A tone \in DOMAIN outreach[1].returned :
                  outreach[1].returned[tone].tone_mode = tone
           /\ outreach[1].generator_after.tone = outreach[1].generator.tone
    /\ generator # None => generator[1].tone = toneSet[1]
    /\ Generated => outreach[1].returned.tone_mode = outreach[1].generator.tone

\* A formal generator has previewed both tones, the friendly one included,
\* and is still formal.
C30_Witness ==
    /\ Previewed
    /\ outreach[1].generator.tone = FORMAL
    /\ outreach[1].returned[FRIENDLY].tone_mode = FRIENDLY
    /\ Contains(outreach[1].returned[FRIENDLY].body, <<"Hallo ", context.influencer_name>>)
    /\ generator[1].tone = FORMAL
    /\ toneSet = Some(FORMAL)


(***************************************************************************)
(* privacy_check (content/outreach_generator.py).  An email body is the    *)
(* sequence of its lines.                                                  *)
(***************************************************************************)
opt_out_keywords ==
    <<"keine weiteren nachrichten", "abmelden", "abbestellen", "unsubscribe", "opt-out",
      "nicht mehr kontaktieren">>

data_protection_keywords ==
    <<"datenschutz", "daten", "privacy", "nicht weitergegeben", "vertraulich">>

company_indicators == <<"gmbh", "ag", "ug", "kg", "ohg", "e.k.", "gbr">>

\* The lines of the model in which re.search finds the pattern.
address_pattern == {"12345 Berlin"}
email_pattern == {"kontakt@ecostyle.de"}
phone_pattern == {"12345 Berlin"}

Search(pattern, email_body) == \E i \in 1..Len(email_body) : email_body[i] \in pattern

\* any(kw in body_lower for kw in keywords)
AnyIn(keywords, body_lower) == \E i \in 1..Len(keywords) : KeywordIn(keywords[i], body_lower)

MissingOptOut == "opt-out (UWG 7)"
MissingDataProtection == "data protection statement (GDPR Art.13)"
MissingCompanyName == "company name (TMG 5)"
WarnAddress == "add the company address (TMG 5)"
WarnContact == "add a contact (TMG 5)"
WarnResponsible == "add the responsible person"
WarnCommercial == "mark the commercial intent"

\* A company name in the context counts as given, in the body or not.
CompanyName_FromContext(body_lower, ctx) ==
    IF AnyIn(company_indicators, body_lower) THEN TRUE
    ELSE ctx # None /\ ctx[1].company_name # ""

\* impressum_checks["company_name"]: a legal-form indicator in the body, or
\* the company name of the context in the body.
CompanyName(body_lower, ctx) ==
    IF AnyIn(company_indicators, body_lower) THEN TRUE
    ELSE IF ctx # None /\ ctx[1].company_name # ""
         THEN KeywordIn(Lower(ctx[1].company_name), body_lower)
         ELSE FALSE

impressum_checks(email_body, ctx) ==
    LET body_lower == LowerText(email_body)
    IN  [company_name |-> CompanyName(body_lower, ctx),
         address |->
            IF Search(address_pattern, email_body) THEN TRUE
            ELSE ctx # None /\ ctx[1].company_address # "",
         contact |->
            IF Search(email_pattern, email_body) \/ Search(phone_pattern, email_body)
            THEN TRUE
            ELSE ctx # None /\ (ctx[1].company_email # "" \/ ctx[1].company_phone # ""),
         responsible_person |->
            /\ ctx # None
            /\ ctx[1].sender_name # ""
            /\ KeywordIn(Lower(ctx[1].sender_name), body_lower)]

privacy_check(email_body, ctx, strict_mode) ==
    LET body_lower == LowerText(email_body)
        has_opt_out == AnyIn(opt_out_keywords, body_lower)
        has_data_protection == AnyIn(data_protection_keywords, body_lower)
        checks == impressum_checks(email_body, ctx)
        missing ==
            (IF has_opt_out THEN <<>> ELSE <<MissingOptOut>>)
            \o (IF has_data_protection THEN <<>> ELSE <<MissingDataProtection>>)
            \o (IF checks.company_name THEN <<>> ELSE <<MissingCompanyName>>)
        warnings ==
            (IF ~checks.address /\ strict_mode THEN <<WarnAddress>> ELSE <<>>)
            \o (IF ~checks.contact /\ strict_mode THEN <<WarnContact>> ELSE <<>>)
            \o (IF ~checks.responsible_person THEN <<WarnResponsible>> ELSE <<>>)
            \o (IF ~KeywordIn("werbung", body_lower) /\ ~KeywordIn("kooperation", body_lower)
                THEN <<WarnCommercial>> ELSE <<>>)
    IN  [is_compliant |-> Len(missing) = 0,
         missing_elements |-> missing,
         warnings |-> warnings,
         impressum_complete |-> \A check \in DOMAIN checks : checks[check],
         gdpr_elements_present |->
            (IF has_opt_out THEN <<MissingOptOut>> ELSE <<>>)
            \o (IF has_data_protection THEN <<MissingDataProtection>> ELSE <<>>)]

\* The lines of the bodies, in the order in which a body has them.
MailLines ==
    <<"Guten Tag Frau Schmidt,", "Hi Anna,", "wir möchten Ihnen eine Kooperation anbieten.",
      "Li Wei", "EcoStyle GmbH", "Ihr EcoStyle Team", "12345 Berlin", "kontakt@ecostyle.de",
      "Falls Sie keine weiteren Nachrichten möchten, teilen Sie uns dies bitte mit.",
      "Datenschutz: Ihre Daten werden nicht weitergegeben.">>

\* The bodies: every selection of the lines.
MailBodies ==
    {SelectSeq(MailLines, LAMBDA line : line \in chosen) :
        chosen \in SUBSET {MailLines[i] : i \in 1..Len(MailLines)}}

MailContext(company_name, company_address, company_email, company_phone, sender_name) ==
    [company_name |-> company_name, company_address |-> company_address,
     company_email |-> company_email, company_phone |-> company_phone,
     sender_name |-> sender_name]

\* The contexts: none; the one of test_privacy_check; one with the bare
\* company name and a telephone number only; one with no company name.
MailContexts ==
    {None,
     Some(MailContext("EcoStyle GmbH", "Musterstraße 123, 12345 Berlin",
                      "kontakt@ecostyle.de", "", "Li Wei")),
     Some(MailContext("EcoStyle", "", "", "+49 30 1234567", "")),
     Some(MailContext("", "", "", "", "Li Wei"))}

PrivacyInit ==
    /\ mail \in [email_body : MailBodies, context : MailContexts, strict_mode : BOOLEAN]
    /\ privacy = None
    /\ generator = None
    /\ context = <<>>
    /\ toneSet = None
    /\ outreach = None
    /\ apologyContext = <<>>
    /\ apology = None
    /\ RiskIdle
    /\ EvalIdle
    /\ BatchIdle
    /\ NlpIdle
    /\ RankIdle
    /\ ImportIdle

\* privacy_check(mail.email_body, mail.context, mail.strict_mode)
PrivacyCheck ==
    /\ privacy = None
    /\ privacy' = Some(privacy_check(mail.email_body, mail.context, mail.strict_mode))
    /\ UNCHANGED <<generator, context, toneSet, outreach, mail, apologyContext, apology,
                   riskVars, evalVars, batchVars, nlpVars, rankVars, importVars>>

PrivacyNext == PrivacyCheck

PrivacySpec == PrivacyInit /\ [][PrivacyNext]_vars

(***************************************************************************)
(* Claims about privacy_check (PrivacySpec).                               *)
(***************************************************************************)
\* The lower-cased body has the string in one of its lines.
BodyHas(string) ==
    \E i \in 1..Len(mail.email_body) :
        \/ Lower(mail.email_body[i]) = string
        \/ <<string, Lower(mail.email_body[i])>> \in ProperSubstrings

BodyHasOneOf(strings) == \E i \in 1..Len(strings) : BodyHas(strings[i])

\* C22: is_compliant is true exactly when missing_elements is empty, and
\* that is exactly when the body has an opt-out phrase, a data-protection
\* keyword and a company name (a legal-form indicator, or the company_name of
\* the context); what is missing of address, contact and responsible person
\* shows in impressum_complete and the warnings only.
C22_PrivacyCheck ==
    privacy # None =>
        /\ privacy[1].is_compliant <=> privacy[1].missing_elements = <<>>
        /\ privacy[1].is_compliant <=>
               /\ BodyHasOneOf(opt_out_keywords)
               /\ BodyHasOneOf(data_protection_keywords)
               /\ \/ BodyHasOneOf(company_indicators)
                  \/ /\ mail.context # None
                     /\ mail.context[1].company_name # ""
                     /\ BodyHas(Lower(mail.context[1].company_name))
        /\ \A i \in 1..Len(privacy[1].missing_elements) :
               privacy[1].missing_elements[i]
                   \in {MissingOptOut, MissingDataProtection, MissingCompanyName}

\* A body with the two notices and the company's name, but no address, no
\* contact, no sender and no word of a cooperation, checked strictly without
\* a context: compliant, with an incomplete Impressum and four warnings.
C22_Witness ==
    /\ privacy # None
    /\ mail.context = None
    /\ mail.strict_mode
    /\ mail.email_body = <<MailLines[5], MailLines[9], MailLines[10]>>
    /\ privacy[1].is_compliant
    /\ ~privacy[1].impressum_complete
    /\ Len(privacy[1].warnings) = 4


(***************************************************************************)
(* The apology generator (content/outreach_generator.py).                  *)
(***************************************************************************)
APOLOGY_TEMPLATES ==
    [critical |->
        [subject |-> <<"Dringende Angelegenheit - Bestellung ", "{order_id}">>,
         opening |-> <<"Sehr geehrte/r ", "{name}",
                       ",\n\nwir haben Ihre Bewertung mit großer Besorgnis zur Kenntnis genommen und möchten uns aufrichtig für die entstandenen Unannehmlichkeiten entschuldigen.">>,
         body |-> <<"\n\nIhr Anliegen hat für uns höchste Priorität. ", "{issue_response}",
                    "\n\nUm die Situation zu bereinigen, möchten wir Ihnen ", "{compensation}",
                    " anbieten.">>,
         closing |-> <<"\n\nBitte kontaktieren Sie uns direkt unter ", "{contact}",
                       ", damit wir Ihr Anliegen persönlich klären können.\n\nMit aufrichtiger Entschuldigung,\n",
                       "{sender}">>],
     high |->
        [subject |-> <<"Ihre Bewertung - Wir möchten es wiedergutmachen">>,
         opening |-> <<"Sehr geehrte/r ", "{name}",
                       ",\n\nvielen Dank, dass Sie sich die Zeit genommen haben, uns Feedback zu geben. Es tut uns sehr leid zu hören, dass Sie mit ",
                       "{product}", " nicht zufrieden waren.">>,
         body |-> <<"\n\n", "{issue_response}", "\n\nAls Entschädigung möchten wir Ihnen ",
                    "{compensation}", " anbieten.">>,
         closing |-> <<"\n\nWir würden uns freuen, wenn Sie uns eine zweite Chance geben.\n\nMit freundlichen Grüßen,\n",
                       "{sender}">>],
     medium |->
        [subject |-> <<"Danke für Ihr Feedback - ", "{product}">>,
         opening |-> <<"Liebe/r ", "{name}",
                       ",\n\ndanke für Ihre ehrliche Bewertung. Wir bedauern, dass Ihre Erfahrung nicht Ihren Erwartungen entsprochen hat.">>,
         body |-> <<"\n\n", "{issue_response}",
                    "\n\nAls kleines Dankeschön für Ihr Feedback möchten wir Ihnen ",
                    "{compensation}", " anbieten.">>,
         closing |-> <<"\n\nWir hoffen, Sie bald wieder als zufriedenen Kunden begrüßen zu dürfen!\n\nHerzliche Grüße,\n",
                       "{sender}">>]]

COMPENSATION_SUGGESTIONS ==
    [critical |-> <<"eine vollständige Rückerstattung",
                    "einen kostenlosen Ersatz mit Express-Versand",
                    "eine Rückerstattung plus 20% Gutschein">>,
     high |-> <<"einen 30% Rabattgutschein für Ihre nächste Bestellung",
                "einen kostenlosen Ersatz", "eine teilweise Rückerstattung (50%)">>,
     medium |-> <<"einen 15% Rabattgutschein",
                  "kostenlosen Versand bei Ihrer nächsten Bestellung",
                  "ein kleines Überraschungsgeschenk">>]

critical_keywords ==
    <<"anwalt", "rechtsanwalt", "klage", "gericht", "gefährlich", "verletzung",
      "krankenhaus", "betrug", "täuschung", "polizei">>

high_keywords ==
    <<"rückerstattung", "geld zurück", "defekt", "kaputt", "funktioniert nicht", "falsch">>

\* An urgency that looks at the keywords of both lists before the rating.
determine_urgency_KeywordsFirst(review_content, rating) ==
    LET content_lower == LowerText(review_content)
    IN  IF AnyIn(critical_keywords, content_lower) THEN "critical"
        ELSE IF AnyIn(high_keywords, content_lower) THEN "high"
        ELSE IF rating = 1 THEN "critical"
        ELSE IF rating = 2 THEN "high"
        ELSE "medium"

determine_urgency(review_content, rating) ==
    LET content_lower == LowerText(review_content)
    IN  IF AnyIn(critical_keywords, content_lower) \/ rating = 1 THEN "critical"
        ELSE IF AnyIn(high_keywords, content_lower) \/ rating = 2 THEN "high"
        ELSE "medium"

\* template.format(**kwargs): every placeholder gives way to its value
Format(template, kwargs) ==
    [i \in 1..Len(template) |->
        IF \E k \in 1..Len(kwargs) : template[i] = "{" \o kwargs[k][1] \o "}"
        THEN kwargs[CHOOSE k \in 1..Len(kwargs) : template[i] = "{" \o kwargs[k][1] \o "}"][2]
        ELSE template[i]]

_generate_issue_response(ctx, urgency) ==
    IF ctx.issue_summary # ""
    THEN <<"Bezüglich ", ctx.issue_summary,
           ": Wir nehmen Ihr Feedback sehr ernst und werden die Ursache umgehend untersuchen.">>
    ELSE CASE urgency = "critical" ->
                <<"Wir nehmen Ihre Beschwerde äußerst ernst und haben bereits eine interne Untersuchung eingeleitet.">>
           [] urgency = "high" ->
                <<"Wir verstehen Ihre Frustration und möchten das Problem schnellstmöglich lösen.">>
           [] OTHER ->
                <<"Wir schätzen Ihr ehrliches Feedback und werden es nutzen, um uns zu verbessern.">>

_generate_follow_up_actions(urgency) ==
    IF urgency = "critical"
    THEN <<"have legal review it at once", "telephone the customer within 24 hours",
           "record the incident">>
    ELSE IF urgency = "high"
    THEN <<"send this mail within 48 hours", "prepare refund or exchange",
           "update the quality tracking sheet">>
    ELSE <<"send this mail within 3 days", "consider the suggestion for the product">>

\* Format with a value that is itself a text: its pieces take the place of
\* the placeholder.
RECURSIVE Splice(_, _, _)
Splice(text, key, value) ==
    IF text = <<>> THEN <<>>
    ELSE (IF Head(text) = "{" \o key \o "}" THEN value ELSE <<Head(text)>>)
         \o Splice(Tail(text), key, value)

\* generator.generate(context) of an ApologyGenerator gen, random.choice
\* drawing the suggestion of index choice
ApologyGenerator_generate(gen, ctx, choice) ==
    LET urgency == determine_urgency(ctx.review_content, ctx.review_rating)
        template == APOLOGY_TEMPLATES[urgency]
        compensation == IF ctx.compensation_offer # "" THEN ctx.compensation_offer
                        ELSE COMPENSATION_SUGGESTIONS[urgency][choice]
        issue_response == _generate_issue_response(ctx, urgency)
        sender_info ==
            <<Or(ctx.sender_name, "Kundenservice")>>
            \o (IF ctx.sender_title # "" THEN <<"\n", ctx.sender_title>> ELSE <<>>)
            \o (IF ctx.company_name # "" \/ gen.company_name # ""
                THEN <<"\n", Or(ctx.company_name, gen.company_name)>> ELSE <<>>)
    IN  [subject |-> Format(template.subject,
                            << <<"order_id", Or(ctx.order_id, "Ihre Bestellung")>>,
                               <<"product", Or(ctx.product_name, "Ihrem Produkt")>> >>),
         body |->
            Format(template.opening,
                   << <<"name", ctx.customer_name>>,
                      <<"product", Or(ctx.product_name, "unserem Produkt")>> >>)
            \o Splice(Format(template.body, << <<"compensation", compensation>> >>),
                      "issue_response", issue_response)
            \o Splice(Format(template.closing,
                             << <<"contact", Or(gen.default_contact,
                                                "kundenservice@example.de")>> >>),
                      "sender", sender_info)
            \o <<"\n\nDatenschutz: Ihre Daten werden vertraulich behandelt.">>,
         urgency_level |-> urgency,
         suggested_compensation |-> compensation,
         follow_up_actions |-> _generate_follow_up_actions(urgency),
         gdpr_compliant |-> TRUE]

MakeApologyContext(customer_name, order_id, product_name, issue_summary, compensation_offer, company_name, sender_name, sender_title) ==
    [customer_name |-> customer_name, order_id |-> order_id, product_name |-> product_name,
     issue_summary |-> issue_summary, compensation_offer |-> compensation_offer,
     company_name |-> company_name, sender_name |-> sender_name,
     sender_title |-> sender_title]

\* The customers and orders: as in test_apology_generator; with nothing but
\* the customer's name; with an issue, an offer and a sender.
ApologyCases ==
    {MakeApologyContext("Herr Müller", "ORD-12345", "Elektronikgerät", "", "",
                        "TechShop GmbH", "", ""),
     MakeApologyContext("Frau Weber", "", "", "", "", "", "", ""),
     MakeApologyContext("Frau Weber", "", "Handtasche", "Lieferverzug",
                        "einen Gutschein", "", "Li Wei", "Kundenservice-Leitung")}

\* The ApologyGenerator instances: the default one and one with a company
\* name and a contact.
ApologyGenerators ==
    {[company_name |-> "", default_contact |-> ""],
     [company_name |-> "EcoStyle GmbH", default_contact |-> "hilfe@ecostyle.de"]}

ApologyInit ==
    /\ \E case \in ApologyCases, review_content \in ReviewTexts, review_rating \in 1..5,
          gen \in ApologyGenerators :
           apologyContext = [generator |-> gen,
                             context |-> [field \in DOMAIN case \cup {"review_content",
                                                                      "review_rating"} |->
                                             IF field = "review_content" THEN review_content
                                             ELSE IF field = "review_rating"
                                                  THEN review_rating
                                                  ELSE case[field]]]
    /\ apology = None
    /\ generator = None
    /\ context = <<>>
    /\ toneSet = None
    /\ outreach = None
    /\ mail = <<>>
    /\ privacy = None
    /\ RiskIdle
    /\ EvalIdle
    /\ BatchIdle
    /\ NlpIdle
    /\ RankIdle
    /\ ImportIdle

\* generator.determine_urgency(review_content, review_rating)
DetermineUrgency ==
    /\ apology' = Some([op |-> "determine_urgency",
                        returned |-> determine_urgency(apologyContext.context.review_content,
                                                       apologyContext.context.review_rating)])
    /\ UNCHANGED <<generator, context, toneSet, outreach, mail, privacy, apologyContext,
                   riskVars, evalVars, batchVars, nlpVars, rankVars, importVars>>

\* generator.generate(context)
GenerateApology(choice) ==
    /\ apology' = Some([op |-> "generate",
                        returned |-> ApologyGenerator_generate(apologyContext.generator,
                                                               apologyContext.context,
                                                               choice)])
    /\ UNCHANGED <<generator, context, toneSet, outreach, mail, privacy, apologyContext,
                   riskVars, evalVars, batchVars, nlpVars, rankVars, importVars>>

ApologyNext ==
    \/ DetermineUrgency
    \/ \E choice \in 1..3 : GenerateApology(choice)

ApologySpec == ApologyInit /\ [][ApologyNext]_vars

(***************************************************************************)
(* Claims about the apology generator (ApologySpec).                       *)
(***************************************************************************)
\* The review content has one of the keywords, in any case of letters.
ContentHasOneOf(keywords) ==
    \E i \in 1..Len(keywords), j \in 1..Len(apologyContext.context.review_content) :
        LET fragment == Lower(apologyContext.context.review_content[j])
        IN  fragment = keywords[i] \/ <<keywords[i], fragment>> \in ProperSubstrings

\* The urgency the claim gives to the review of the context.
ClaimedUrgency ==
    IF ContentHasOneOf(critical_keywords) \/ apologyContext.context.review_rating = 1
    THEN "critical"
    ELSE IF ContentHasOneOf(high_keywords) \/ apologyContext.context.review_rating = 2
         THEN "high"
         ELSE "medium"

\* C23: determine_urgency is "critical" if the review has a critical keyword
\* or the rating is 1, otherwise "high" if it has a high keyword or the
\* rating is 2, otherwise "medium"; a generated apology has that urgency as
\* its urgency_level, the subject line, the opening and the closing of the
\* template of that urgency (the three templates differ in each), and the
\* follow-up actions of that urgency.
C23_Urgency ==
    /\ apology # None /\ apology[1].op = "determine_urgency" =>
           apology[1].returned = ClaimedUrgency
    /\ apology # None /\ apology[1].op = "generate" =>
           /\ apology[1].returned.urgency_level = ClaimedUrgency
           /\ apology[1].returned.subject[1] = APOLOGY_TEMPLATES[ClaimedUrgency].subject[1]
           /\ Contains(apology[1].returned.body,
                       <<APOLOGY_TEMPLATES[ClaimedUrgency].opening[3]>>)
           /\ Contains(apology[1].returned.body,
                       <<APOLOGY_TEMPLATES[ClaimedUrgency].closing[1]>>)
           /\ apology[1].returned.follow_up_actions
                  = _generate_follow_up_actions(ClaimedUrgency)
           /\ Len(apology[1].returned.follow_up_actions)
                  = IF ClaimedUrgency = "medium" THEN 2 ELSE 3

\* An apology was generated for a review of one star that has a high keyword
\* and no critical one: it is critical.
C23_Witness ==
    /\ apology # None
    /\ apology[1].op = "generate"
    /\ apologyContext.context.review_rating = 1
    /\ ContentHasOneOf(high_keywords)
    /\ ~ContentHasOneOf(critical_keywords)
    /\ apology[1].returned.urgency_level = "critical"
    /\ apology[1].returned.subject = <<"Dringende Angelegenheit - Bestellung ", "ORD-12345">>


(***************************************************************************)
(* CSV import (shopify/__init__.py, ShopifyDataImporter.import_from_csv).  *)
(* The CSV has a content and a rating column; a row is the pair of its     *)
(* two cells, the content a text and the rating the string of the cell.    *)
(***************************************************************************)
MaxRows == 2   \* data rows in a CSV given to import_from_csv

\* int(float(cell)) of the rating cells of the model: the integer, or None
\* where float or int raises.
IntOfFloat(cell) ==
    CASE cell = "5" -> Some(5)
      [] cell = "1" -> Some(1)
      [] cell = "2.9" -> Some(2)
      [] cell = "0" -> Some(0)
      [] cell = "7" -> Some(7)
      [] cell = "-1" -> Some(0 - 1)
      [] OTHER -> None       \* "abc" and "nan"

RatingCells == {"", "5", "1", "2.9", "0", "7", "-1", "abc", "nan"}

Max(a, b) == IF a >= b THEN a ELSE b

\* A rating cell read as it stands where it is a number.
ParseRating_AsGiven(cell) ==
    IF cell = "" THEN 3
    ELSE IF IntOfFloat(cell) = None THEN 3
         ELSE IntOfFloat(cell)[1]

\* rating = 3; try: rating = max(1, min(5, int(float(cell)))); except: pass
ParseRating(cell) ==
    IF cell = "" THEN 3
    ELSE IF IntOfFloat(cell) = None THEN 3
         ELSE Max(1, Min(5, IntOfFloat(cell)[1]))

\* self._parse_csv_row(row, column_map, idx): None for a row without
\* content, or the ReviewSchema with its analysis fields at their defaults
_parse_csv_row(row, idx) ==
    IF row.content = <<>> THEN None
    ELSE IF Strip(row.content) = <<>> THEN None
    ELSE Some(ReviewSchema(idx, <<Strip(row.content), ParseRating(row.rating)>>,
                           [risk_level |-> None, risk_flags |-> <<>>]))

\* The reviews of the rows, the rows without content left out.
RECURSIVE ParsedRows(_, _)
ParsedRows(rows, idx) ==
    IF rows = <<>> THEN <<>>
    ELSE LET parsed == _parse_csv_row(Head(rows), idx)
         IN  (IF parsed = None THEN <<>> ELSE <<parsed[1]>>)
             \o ParsedRows(Tail(rows), idx + 1)

\* importer.import_from_csv(csv_content), the importer's detector reading
\* the keyword lists risk_keywords
import_from_csv(risk_keywords, rows) ==
    LET reviews_ == batch_detect(risk_keywords, ParsedRows(rows, 0))
    IN  [success |-> TRUE,
         total_records |-> Len(rows),
         imported_count |-> Len(reviews_),
         failed_count |-> 0,
         errors |-> <<>>,
         reviews |-> reviews_]

CsvContents == {<<>>, <<Blank>>, <<"Anwalt">>, <<Blank, "Geld zurück">>, <<"okay">>}

CsvRows == [content : CsvContents, rating : RatingCells]

ImportInit ==
    /\ csv \in SeqsUpTo(CsvRows, MaxRows)
    /\ imported = None
    /\ RiskIdle
    /\ EvalIdle
    /\ BatchIdle
    /\ NlpIdle
    /\ RankIdle
    /\ ContentIdle

\* ShopifyDataImporter().import_from_csv(csv): the importer constructs its
\* own RiskDetector(), without custom keywords.
ShopifyDataImporter_import_from_csv ==
    /\ LET detector == [risk_keywords |-> ShallowCopy, custom |-> None]
           keywords == DetectorKeywords(detector, ExtendKeywords(RISK_KEYWORDS, None))
       IN  imported' = Some([keywords |-> keywords, rows |-> csv,
                             returned |-> import_from_csv(keywords, csv)])
    /\ UNCHANGED <<csv, riskVars, evalVars, batchVars, nlpVars, rankVars, contentVars>>

\* RiskDetector(custom_keywords), constructed elsewhere in the process
OtherDetector(custom_keywords) ==
    /\ RiskDetector_init(custom_keywords)
    /\ UNCHANGED importVars

ImportNext ==
    \/ ShopifyDataImporter_import_from_csv
    \/ \E custom_keywords \in CustomKeywordChoices : OtherDetector(custom_keywords)

ImportSpec == ImportInit /\ [][ImportNext]_vars

(***************************************************************************)
(* Claims about the CSV import (ImportSpec).                               *)
(***************************************************************************)
\* The rows that have content, in their order.
RowsWithContent(rows) == SelectSeq(rows, LAMBDA row : Strip(row.content) # <<>>)

\* The rating the claim gives to a cell: the number in 1..5 it holds, the
\* nearer end of 1..5 for a number outside, 3 for what is no number.
ClaimedRating(cell) ==
    CASE cell \in {"5", "7"} -> 5
      [] cell \in {"1", "0", "-1"} -> 1
      [] cell = "2.9" -> 2
      [] OTHER -> 3

\* C28: after a successful import every review of the result has a risk_level
\* that is not null and is the risk_level detect gives for its content and
\* rating, and a rating in 1..5: the cell's number clamped to 1..5, or 3 for
\* a cell that is empty or no number.
C28_ImportedReviewsAreAnalysed ==
    (imported # None /\ imported[1].returned.success) =>
        /\ Len(imported[1].returned.reviews) = Len(RowsWithContent(imported[1].rows))
        /\ \A i \in 1..Len(imported[1].returned.reviews) :
               LET rev == imported[1].returned.reviews[i]
                   row == RowsWithContent(imported[1].rows)[i]
               IN  /\ rev.risk_level # None
                   /\ rev.risk_level
                          = Some(detect(imported[1].keywords, rev.content, rev.rating).risk_level)
                   /\ rev.rating # None
                   /\ rev.rating[1] \in 1..5
                   /\ rev.rating[1] = ClaimedRating(row.rating)
                   /\ rev.content = Strip(row.content)

\* Two rows were imported: a legal threat rated 7 and a refund demand with a
\* rating that is no number; they come out critical with rating 5 and high
\* with rating 3.
C28_Witness ==
    /\ imported # None
    /\ imported[1].rows = <<[content |-> <<"Anwalt">>, rating |-> "7"],
                            [content |-> <<Blank, "Geld zurück">>, rating |-> "abc"]>>
    /\ imported[1].returned.success
    /\ imported[1].returned.reviews[1].rating = Some(5)
    /\ imported[1].returned.reviews[1].risk_level = Some(CRITICAL)
    /\ imported[1].returned.reviews[2].rating = Some(3)
    /\ imported[1].returned.reviews[2].risk_level = Some(HIGH)

====
